---- MODULE Spec2Model ----
(***************************************************************************)
(* Article lifecycle and taxonomy associations of simple-cms.              *)
(*                                                                         *)
(* The store (PostgreSQL) is the record db: one field per table.  Every    *)
(* SQL statement of the repositories is an operator from a store to a      *)
(* statement result [ok, db, err]; the row triggers and the foreign-key    *)
(* cascades of the migrations are part of the statement that fires them.   *)
(* A repository method is the chain of its statements between BEGIN and    *)
(* COMMIT / ROLLBACK, a service method is its checks followed by the       *)
(* repository call, and an action is one whole service call.               *)
(*                                                                         *)
(* For the calls that run at the same time, tx holds one writer per call:  *)
(* there an action is one await of the call, db is the committed store,    *)
(* and the rows a transaction wrote are its own until its COMMIT.          *)
(*                                                                         *)
(* The controllers of publish, unpublish and archive map the error of the  *)
(* service to a response, and findRelatedArticles is the set of the lists  *)
(* its query may return.                                                   *)
(***************************************************************************)
EXTENDS Integers, Sequences, FiniteSets, TLC

VARIABLES db, now, last, hist, tx

vars == <<db, now, last, hist, tx>>

----------------------------------------------------------------------------
(* Bounds of the model *)

MaxArticles == 2
MaxTags == 2
MaxCategories == 1
MaxIds == 2
MaxClock == 2
LifeRows == 1
MaxPatchFields == 1
MaxWriters == 2
\* articles, and the largest limit, of the calls of findRelatedArticles
MaxRelated == 3
MaxLimit == 2
MaxQueryLength == 4
\* categories of the calls of CategoryService
CategoryRows == 2

ArticleIds == 1..MaxArticles
TagIds == 1..MaxTags
CategoryIds == 1..MaxCategories
LifeIds == 1..LifeRows
Writers == 1..MaxWriters
RelatedIds == 1..MaxRelated

----------------------------------------------------------------------------
(* Text values: a string is a sequence of characters *)

Sp == " "

\* String.prototype.trim: strips the leading and the trailing white space
RECURSIVE TrimLeft(_)
TrimLeft(s) ==
  IF s = <<>> THEN s
  ELSE IF Head(s) = Sp THEN TrimLeft(Tail(s)) ELSE s

RECURSIVE TrimRight(_)
TrimRight(s) ==
  IF s = <<>> THEN s
  ELSE IF s[Len(s)] = Sp THEN TrimRight(SubSeq(s, 1, Len(s) - 1)) ELSE s

Trim(s) == TrimRight(TrimLeft(s))

\* JavaScript truthiness of a string: the empty string is falsy
Falsy(s) == s = <<>>

\* the SQL NULL of a text column, and of a timestamp column
NullText == <<"NULL">>
NullTime == 0

Titles == {<<>>, <<Sp>>, <<"a">>}
Contents == {<<>>, <<"c">>}
Excerpts == {<<"e">>}
Statuses == {"draft", "published", "archived"}

Has(r, f) == f \in DOMAIN r

----------------------------------------------------------------------------
(* The store *)

\* every table is empty once the migrations have run; a table is a function
\* from the ids of its rows to the rows, a junction table the set of its pairs
NoRows == [x \in {} |-> x]

EmptyDb ==
  [articles |-> NoRows,
   categories |-> NoRows,
   tags |-> NoRows,
   article_categories |-> {},
   article_tags |-> {}]

\* a statement result: the store the statement leaves, or the error it raised
Ok(d) == [ok |-> TRUE, db |-> d, err |-> "none"]
Fail(d, e) == [ok |-> FALSE, db |-> d, err |-> e]

\* f without the key k, and f with the row v under the key k
Without(f, k) == [x \in DOMAIN f \ {k} |-> f[x]]
Put(f, k, v) == [x \in DOMAIN f \cup {k} |-> IF x = k THEN v ELSE f[x]]

Range(s) == {s[i] : i \in DOMAIN s}
HasDuplicates(s) == \E i, j \in DOMAIN s : i # j /\ s[i] = s[j]

----------------------------------------------------------------------------
(* Slugs *)

Lower(c) == IF c = "A" THEN "a" ELSE IF c = "B" THEN "b" ELSE c
IsSlugChar(c) == c \in {"a", "b", "0", "1", "d", "f", "n", "o", "t", "u"}
Dash == "-"

\* .toLowerCase()
ToLowerCase(s) == [i \in DOMAIN s |-> Lower(s[i])]

\* .replace(/[^a-z0-9]+/g, '-'): every run of other characters becomes one dash
RECURSIVE CollapseRuns(_)
CollapseRuns(s) ==
  IF s = <<>> THEN s
  ELSE IF IsSlugChar(Head(s)) THEN <<Head(s)>> \o CollapseRuns(Tail(s))
  ELSE IF Len(s) > 1 /\ ~IsSlugChar(s[2]) THEN CollapseRuns(Tail(s))
  ELSE <<Dash>> \o CollapseRuns(Tail(s))

\* .replace(/^-+|-+$/g, ''): strips the leading and the trailing dashes
RECURSIVE StripDashes(_)
StripDashes(s) ==
  IF s = <<>> THEN s
  ELSE IF Head(s) = Dash THEN StripDashes(Tail(s))
  ELSE IF s[Len(s)] = Dash THEN StripDashes(SubSeq(s, 1, Len(s) - 1))
  ELSE s

generateSlug(name) == StripDashes(CollapseRuns(ToLowerCase(name)))

----------------------------------------------------------------------------
(* Triggers of article_tags *)

\* a trigger function that counts the inserted rows only
update_tag_usage_count_IgnoresDelete(tags, TG_OP, tag_id) ==
  IF tag_id \notin DOMAIN tags THEN tags
  ELSE IF TG_OP = "INSERT"
       THEN [tags EXCEPT ![tag_id].usage_count = @ + 1]
  ELSE tags

\* update_tag_usage_count(): one firing, for one inserted or deleted row
update_tag_usage_count(tags, TG_OP, tag_id) ==
  IF tag_id \notin DOMAIN tags THEN tags
  ELSE IF TG_OP = "INSERT"
       THEN [tags EXCEPT ![tag_id].usage_count = @ + 1]
  ELSE IF TG_OP = "DELETE"
       THEN [tags EXCEPT ![tag_id].usage_count = @ - 1]
  ELSE tags

\* AFTER INSERT / AFTER DELETE ... FOR EACH ROW
RECURSIVE ForEachRow(_, _, _)
ForEachRow(tags, TG_OP, rows) ==
  IF rows = {} THEN tags
  ELSE LET r == CHOOSE x \in rows : TRUE
       IN ForEachRow(update_tag_usage_count(tags, TG_OP, r[2]), TG_OP, rows \ {r})

\* DELETE of a set of article_tags rows, with its row triggers
DeleteTagRows(d, rows) ==
  [d EXCEPT !.article_tags = @ \ rows,
            !.tags = ForEachRow(@, "DELETE", rows)]

----------------------------------------------------------------------------
(* Statements on articles and their junction tables *)

\* INSERT INTO articles (...) VALUES (...)
InsertArticle(d, id, row) ==
  IF row.title = NullText \/ row.content = NullText
  THEN Fail(d, "not null violation")
  ELSE Ok([d EXCEPT !.articles = Put(@, id, row)])

\* one optional column of the SET clause: assigned only when the patch has it
SetColumn(updates, f, old) ==
  IF Has(updates, f) THEN updates[f] ELSE old

\* updates.clearPublishedAt, as a condition
ClearPublishedAt(updates) ==
  Has(updates, "clearPublishedAt") /\ updates.clearPublishedAt

\* a SET clause that stamps published_at at every publication
SetPublishedAt_AlwaysNow(updates, old, t) ==
  IF ~Has(updates, "status") THEN old
  ELSE IF updates.status = "published" THEN t
  ELSE IF updates.status \in {"draft", "archived"} /\ ClearPublishedAt(updates)
       THEN NullTime
  ELSE old

\* the published_at column of the SET clause
SetPublishedAt(updates, old, t) ==
  IF ~Has(updates, "status") THEN old
  ELSE IF updates.status = "published"
       THEN (IF old = NullTime THEN t ELSE old)
  ELSE IF updates.status \in {"draft", "archived"} /\ ClearPublishedAt(updates)
       THEN NullTime
  ELSE old

\* setClause.length > 0
HasSetClause(updates) ==
  \E f \in {"title", "content", "excerpt", "status"} : Has(updates, f)

\* UPDATE articles SET ... WHERE id = $n
UpdateArticle(d, id, updates, t) ==
  IF id \notin DOMAIN d.articles THEN Ok(d)
  ELSE LET old == d.articles[id]
           row == [title |-> SetColumn(updates, "title", old.title),
                   content |-> SetColumn(updates, "content", old.content),
                   excerpt |-> SetColumn(updates, "excerpt", old.excerpt),
                   status |-> SetColumn(updates, "status", old.status),
                   published_at |-> SetPublishedAt(updates, old.published_at, t)]
       IN IF row.title = NullText \/ row.content = NullText
          THEN Fail(d, "not null violation")
          ELSE Ok([d EXCEPT !.articles[id] = row])

LinkRows(articleId, ids) == {<<articleId, ids[i]>> : i \in DOMAIN ids}

\* associateCategories: one multi-row INSERT INTO article_categories
associateCategories(d, articleId, categoryIds) ==
  IF Len(categoryIds) = 0 THEN Ok(d)
  ELSE IF articleId \notin DOMAIN d.articles
          \/ \E c \in Range(categoryIds) : c \notin DOMAIN d.categories
       THEN Fail(d, "foreign key violation")
  ELSE IF HasDuplicates(categoryIds)
          \/ LinkRows(articleId, categoryIds) \cap d.article_categories # {}
       THEN Fail(d, "duplicate key")
  ELSE Ok([d EXCEPT !.article_categories = @ \cup LinkRows(articleId, categoryIds)])

\* an associateTags that inserts the row of the first id only
associateTags_FirstOnly(d, articleId, tagIds) ==
  IF Len(tagIds) = 0 THEN Ok(d)
  ELSE IF articleId \notin DOMAIN d.articles \/ tagIds[1] \notin DOMAIN d.tags
       THEN Fail(d, "foreign key violation")
  ELSE IF <<articleId, tagIds[1]>> \in d.article_tags
       THEN Fail(d, "duplicate key")
  ELSE Ok([d EXCEPT !.article_tags = @ \cup {<<articleId, tagIds[1]>>},
                    !.tags = ForEachRow(@, "INSERT", {<<articleId, tagIds[1]>>})])

\* associateTags: one multi-row INSERT INTO article_tags, with its row triggers
associateTags(d, articleId, tagIds) ==
  IF Len(tagIds) = 0 THEN Ok(d)
  ELSE IF articleId \notin DOMAIN d.articles
          \/ \E t \in Range(tagIds) : t \notin DOMAIN d.tags
       THEN Fail(d, "foreign key violation")
  ELSE IF HasDuplicates(tagIds)
          \/ LinkRows(articleId, tagIds) \cap d.article_tags # {}
       THEN Fail(d, "duplicate key")
  ELSE Ok([d EXCEPT !.article_tags = @ \cup LinkRows(articleId, tagIds),
                    !.tags = ForEachRow(@, "INSERT", LinkRows(articleId, tagIds))])

\* DELETE FROM article_categories WHERE article_id = $1
DeleteArticleCategories(d, articleId) ==
  Ok([d EXCEPT !.article_categories = {r \in @ : r[1] # articleId}])

\* a DELETE on article_tags that fires no trigger
DeleteArticleTags_NoTrigger(d, articleId) ==
  Ok([d EXCEPT !.article_tags = {r \in @ : r[1] # articleId}])

\* DELETE FROM article_tags WHERE article_id = $1
DeleteArticleTags(d, articleId) ==
  Ok(DeleteTagRows(d, {r \in d.article_tags : r[1] = articleId}))

\* updateCategoryAssociations: delete the links, then insert the new ones
updateCategoryAssociations(d, articleId, categoryIds) ==
  LET r == DeleteArticleCategories(d, articleId)
  IN IF Len(categoryIds) > 0
     THEN associateCategories(r.db, articleId, categoryIds)
     ELSE r

\* an updateTagAssociations that inserts without deleting first
updateTagAssociations_Merges(d, articleId, tagIds) ==
  IF Len(tagIds) > 0
  THEN associateTags(d, articleId, tagIds)
  ELSE Ok(d)

\* updateTagAssociations: delete the links, then insert the new ones
updateTagAssociations(d, articleId, tagIds) ==
  LET r == DeleteArticleTags(d, articleId)
  IN IF Len(tagIds) > 0
     THEN associateTags(r.db, articleId, tagIds)
     ELSE r

\* DELETE FROM articles WHERE id = $1, with the ON DELETE CASCADE of both
\* junction tables
DeleteArticle(d, id) ==
  LET c == [d EXCEPT !.article_categories = {r \in @ : r[1] # id}]
      t == DeleteTagRows(c, {r \in c.article_tags : r[1] = id})
  IN Ok([t EXCEPT !.articles = Without(@, id)])

----------------------------------------------------------------------------
(* Statements on tags and categories *)

\* INSERT INTO tags (name, slug, usage_count) VALUES ($1, $2, 0)
InsertTag(d, id, name, slug) ==
  IF \E t \in DOMAIN d.tags : d.tags[t].name = name \/ d.tags[t].slug = slug
  THEN Fail(d, "duplicate key")
  ELSE Ok([d EXCEPT !.tags = Put(@, id, [name |-> name, slug |-> slug,
                                         usage_count |-> 0])])

\* SELECT ... FROM tags WHERE name = $1: the id of the row, 0 for no row
TagByName(d, name) ==
  IF \E t \in DOMAIN d.tags : d.tags[t].name = name
  THEN CHOOSE t \in DOMAIN d.tags : d.tags[t].name = name
  ELSE 0

\* SELECT ... FROM categories WHERE name = $1: the id of the row, 0 for no row
CategoryByName(d, name) ==
  IF \E c \in DOMAIN d.categories : d.categories[c].name = name
  THEN CHOOSE c \in DOMAIN d.categories : d.categories[c].name = name
  ELSE 0

\* DELETE FROM article_tags WHERE tag_id = $1
DeleteTagLinks(d, tagId) ==
  Ok(DeleteTagRows(d, {r \in d.article_tags : r[2] = tagId}))

\* DELETE FROM tags WHERE id = $1, with the ON DELETE CASCADE of article_tags
DeleteTag(d, tagId) ==
  LET c == DeleteTagRows(d, {r \in d.article_tags : r[2] = tagId})
  IN Ok([c EXCEPT !.tags = Without(@, tagId)])

\* DELETE FROM tags of every tag that no article uses or one article uses
DeleteUnusedTags_UsedOnce(d) ==
  LET unused == {t \in DOMAIN d.tags : d.tags[t].usage_count <= 1}
      c == DeleteTagRows(d, {r \in d.article_tags : r[2] \in unused})
  IN [ok |-> TRUE, db |-> [c EXCEPT !.tags = [t \in DOMAIN @ \ unused |-> @[t]]],
      err |-> "none", rowCount |-> Cardinality(unused)]

\* DELETE FROM tags WHERE usage_count = 0, with the ON DELETE CASCADE of
\* article_tags; rowCount is the number of tags rows deleted
DeleteUnusedTags(d) ==
  LET unused == {t \in DOMAIN d.tags : d.tags[t].usage_count = 0}
      c == DeleteTagRows(d, {r \in d.article_tags : r[2] \in unused})
  IN [ok |-> TRUE, db |-> [c EXCEPT !.tags = [t \in DOMAIN @ \ unused |-> @[t]]],
      err |-> "none", rowCount |-> Cardinality(unused)]

\* INSERT INTO categories (name, description, slug) VALUES ($1, $2, $3)
InsertCategory(d, id, name, slug) ==
  IF \E c \in DOMAIN d.categories :
       d.categories[c].name = name \/ d.categories[c].slug = slug
  THEN Fail(d, "duplicate key")
  ELSE Ok([d EXCEPT !.categories = Put(@, id, [name |-> name, slug |-> slug])])

\* UPDATE categories SET name = $1, slug = $2 WHERE id = $3
UpdateCategory(d, id, name, slug) ==
  IF id \notin DOMAIN d.categories THEN Ok(d)
  ELSE IF \E c \in DOMAIN d.categories \ {id} :
            d.categories[c].name = name \/ d.categories[c].slug = slug
  THEN Fail(d, "duplicate key")
  ELSE Ok([d EXCEPT !.categories[id] = [name |-> name, slug |-> slug]])

\* DELETE FROM article_categories WHERE category_id = $1
DeleteCategoryLinks(d, categoryId) ==
  Ok([d EXCEPT !.article_categories = {r \in @ : r[2] # categoryId}])

\* DELETE FROM categories WHERE id = $1, with the ON DELETE CASCADE
DeleteCategory(d, categoryId) ==
  Ok([d EXCEPT !.article_categories = {r \in @ : r[2] # categoryId},
               !.categories = Without(@, categoryId)])

----------------------------------------------------------------------------
(* Transactions *)

\* what the store can do to a call: nothing, fail the COMMIT, or fail the
\* read that follows the COMMIT
Faults == {"none", "commit", "readback"}

\* how a transaction ended: the store it left, and the error it threw
Committed(d) == [db |-> d, committed |-> TRUE, err |-> "none"]
RolledBack(d, e) == [db |-> d, committed |-> FALSE, err |-> e]

\* COMMIT, or the catch block: ROLLBACK restores the store of BEGIN and the
\* error is thrown again
EndTransaction(begin, r, fault) ==
  IF ~r.ok THEN RolledBack(begin, r.err)
  ELSE IF fault = "commit" THEN RolledBack(begin, "store unavailable")
  ELSE Committed(r.db)

\* a read after the COMMIT, still inside the try block: when it fails the
\* catch block issues a ROLLBACK with no transaction open and throws
ReadBack(out, fault) ==
  IF out.committed /\ fault = "readback"
  THEN [out EXCEPT !.err = "store unavailable"]
  ELSE out

----------------------------------------------------------------------------
(* ArticleRepository *)

\* findById: the row and its two id lists, or null
Exists(d, id) == id \in DOMAIN d.articles
getArticleCategoryIds(d, id) == {r[2] : r \in {x \in d.article_categories : x[1] = id}}
getArticleTagIds(d, id) == {r[2] : r \in {x \in d.article_tags : x[1] = id}}

\* a row that create inserts without its published_at
NewArticleRow_NoStamp(articleData, t) ==
  [title |-> articleData.title,
   content |-> articleData.content,
   excerpt |-> IF Has(articleData, "excerpt") /\ ~Falsy(articleData.excerpt)
               THEN articleData.excerpt ELSE NullText,
   status |-> IF Has(articleData, "status") THEN articleData.status ELSE "draft",
   published_at |-> NullTime]

\* findById: the article with its two id lists, read as sets (the SELECTs
\* have no ORDER BY); asked only for an id that Exists
findById(d, id) ==
  [row |-> d.articles[id],
   categoryIds |-> getArticleCategoryIds(d, id),
   tagIds |-> getArticleTagIds(d, id)]

\* the row create inserts
NewArticleRow(articleData, t) ==
  [title |-> articleData.title,
   content |-> articleData.content,
   excerpt |-> IF Has(articleData, "excerpt") /\ ~Falsy(articleData.excerpt)
               THEN articleData.excerpt ELSE NullText,
   status |-> IF Has(articleData, "status") THEN articleData.status ELSE "draft",
   published_at |-> IF Has(articleData, "status") /\ articleData.status = "published"
                    THEN t ELSE NullTime]

ArticleRepository_create(d, id, articleData, t, fault) ==
  LET r1 == InsertArticle(d, id, NewArticleRow(articleData, t))
      r2 == IF r1.ok /\ Has(articleData, "categoryIds")
                     /\ Len(articleData.categoryIds) > 0
            THEN associateCategories(r1.db, id, articleData.categoryIds)
            ELSE r1
      r3 == IF r2.ok /\ Has(articleData, "tagIds") /\ Len(articleData.tagIds) > 0
            THEN associateTags(r2.db, id, articleData.tagIds)
            ELSE r2
  IN ReadBack(EndTransaction(d, r3, fault), fault)

\* an update that reads a missing tagIds as the empty list
ArticleRepository_update_AlwaysReplacesTags(d, id, updates, t, fault) ==
  LET r1 == IF HasSetClause(updates) THEN UpdateArticle(d, id, updates, t) ELSE Ok(d)
      r2 == IF r1.ok /\ Has(updates, "categoryIds")
            THEN updateCategoryAssociations(r1.db, id, updates.categoryIds)
            ELSE r1
      r3 == IF r2.ok
            THEN updateTagAssociations(r2.db, id,
                   IF Has(updates, "tagIds") THEN updates.tagIds ELSE <<>>)
            ELSE r2
  IN ReadBack(EndTransaction(d, r3, fault), fault)

ArticleRepository_update(d, id, updates, t, fault) ==
  LET r1 == IF HasSetClause(updates) THEN UpdateArticle(d, id, updates, t) ELSE Ok(d)
      r2 == IF r1.ok /\ Has(updates, "categoryIds")
            THEN updateCategoryAssociations(r1.db, id, updates.categoryIds)
            ELSE r1
      r3 == IF r2.ok /\ Has(updates, "tagIds")
            THEN updateTagAssociations(r2.db, id, updates.tagIds)
            ELSE r2
  IN ReadBack(EndTransaction(d, r3, fault), fault)

\* a delete that removes the row of the article and leaves its links
ArticleRepository_delete_RowOnly(d, id, fault) ==
  EndTransaction(d, Ok([d EXCEPT !.articles = Without(@, id)]), fault)

ArticleRepository_delete(d, id, fault) ==
  LET r1 == DeleteArticleCategories(d, id)
      r2 == DeleteArticleTags(r1.db, id)
      r3 == DeleteArticle(r2.db, id)
  IN EndTransaction(d, r3, fault)

\* findByCategory, findByTag: the ids of the rows of the query, all pages
\* together
findByCategory(d, categoryId) ==
  {a \in DOMAIN d.articles : /\ <<a, categoryId>> \in d.article_categories
                             /\ d.articles[a].status = "published"}

findByTag(d, tagId) ==
  {a \in DOMAIN d.articles : /\ <<a, tagId>> \in d.article_tags
                             /\ d.articles[a].status = "published"}

----------------------------------------------------------------------------
(* TagRepository and CategoryRepository *)

TagRepository_create(d, id, name) ==
  LET r == InsertTag(d, id, name, generateSlug(name))
  IN IF r.ok THEN Committed(r.db) ELSE RolledBack(d, r.err)

TagRepository_delete(d, id, fault) ==
  LET r1 == DeleteTagLinks(d, id)
      r2 == DeleteTag(r1.db, id)
  IN EndTransaction(d, r2, fault)

\* the store cleanupUnusedTags leaves and the number it returns
TagRepository_cleanupUnusedTags(d) ==
  LET result == DeleteUnusedTags(d)
  IN [db |-> result.db, count |-> result.rowCount]

CategoryRepository_create(d, id, name) ==
  LET r == InsertCategory(d, id, name, generateSlug(name))
  IN IF r.ok THEN Committed(r.db) ELSE RolledBack(d, r.err)

\* delete whose first DELETE is not part of the transaction
CategoryRepository_delete_LinksFirst(d, id, fault) ==
  LET r1 == DeleteCategoryLinks(d, id)
      r2 == DeleteCategory(r1.db, id)
  IN EndTransaction(r1.db, r2, fault)

CategoryRepository_delete(d, id, fault) ==
  LET r1 == DeleteCategoryLinks(d, id)
      r2 == DeleteCategory(r1.db, id)
  IN EndTransaction(d, r2, fault)

----------------------------------------------------------------------------
(* ArticleService: each method gives the store it leaves, whether its       *)
(* transaction committed, and what the caller gets: "ok" or the message of  *)
(* the error thrown                                                         *)

MaxDraftTitleLength == 1000
MaxDraftContentLength == 100000

Plain(out) == [db |-> out.db, committed |-> out.committed,
               result |-> IF out.err = "none" THEN "ok" ELSE out.err]

Rejected(d, msg) == [db |-> d, committed |-> FALSE, result |-> msg]

\* the outcome of a repository call; whenNull is thrown when the call
\* returns null or false
Returned(out, isNull, whenNull) ==
  [db |-> out.db, committed |-> out.committed,
   result |-> IF out.err # "none" THEN out.err
              ELSE IF isNull THEN whenNull
              ELSE "ok"]

\* !s?.trim()
Blank(s) == Falsy(Trim(s))

ArticleService_create(d, id, articleData, t, fault) ==
  IF Blank(articleData.title) THEN Rejected(d, "Article title is required")
  ELSE IF Blank(articleData.content) THEN Rejected(d, "Article content is required")
  ELSE Returned(ArticleRepository_create(d, id, articleData, t, fault), FALSE, "")

ArticleService_update(d, id, updates, t, fault) ==
  IF ~Exists(d, id) THEN Rejected(d, "Article not found")
  ELSE IF Has(updates, "title") /\ Blank(updates.title)
       THEN Rejected(d, "Article title cannot be empty")
  ELSE IF Has(updates, "content") /\ Blank(updates.content)
       THEN Rejected(d, "Article content cannot be empty")
  ELSE LET out == ArticleRepository_update(d, id, updates, t, fault)
       IN Returned(out, ~Exists(out.db, id), "Failed to update article")

ArticleService_delete(d, id, fault) ==
  IF ~Exists(d, id) THEN Rejected(d, "Article not found")
  ELSE LET out == ArticleRepository_delete(d, id, fault)
       IN Returned(out, ~Exists(d, id), "Failed to delete article")

ArticleService_publish(d, id, t, fault) ==
  IF ~Exists(d, id) THEN Rejected(d, "Article not found")
  ELSE IF d.articles[id].status = "published"
       THEN Rejected(d, "Article is already published")
  ELSE IF Blank(d.articles[id].title)
       THEN Rejected(d, "Cannot publish article without a title")
  ELSE IF Blank(d.articles[id].content)
       THEN Rejected(d, "Cannot publish article without content")
  ELSE LET out == ArticleRepository_update(d, id, [status |-> "published"], t, fault)
       IN Returned(out, ~Exists(out.db, id), "Failed to publish article")

\* an unpublish that turns away the drafts only
ArticleService_unpublish_AllowsArchived(d, id, t, fault) ==
  IF ~Exists(d, id) THEN Rejected(d, "Article not found")
  ELSE IF d.articles[id].status = "draft"
       THEN Rejected(d, "Article is not published")
  ELSE LET out == ArticleRepository_update(d, id, [status |-> "draft"], t, fault)
       IN Returned(out, ~Exists(out.db, id), "Failed to unpublish article")

ArticleService_unpublish(d, id, t, fault) ==
  IF ~Exists(d, id) THEN Rejected(d, "Article not found")
  ELSE IF d.articles[id].status # "published"
       THEN Rejected(d, "Article is not published")
  ELSE LET out == ArticleRepository_update(d, id, [status |-> "draft"], t, fault)
       IN Returned(out, ~Exists(out.db, id), "Failed to unpublish article")

\* an archive without the check of the current status
ArticleService_archive_Unchecked(d, id, t, fault) ==
  IF ~Exists(d, id) THEN Rejected(d, "Article not found")
  ELSE LET out == ArticleRepository_update(d, id, [status |-> "archived"], t, fault)
       IN Returned(out, ~Exists(out.db, id), "Failed to archive article")

ArticleService_archive(d, id, t, fault) ==
  IF ~Exists(d, id) THEN Rejected(d, "Article not found")
  ELSE IF d.articles[id].status = "archived"
       THEN Rejected(d, "Article is already archived")
  ELSE LET out == ArticleRepository_update(d, id, [status |-> "archived"], t, fault)
       IN Returned(out, ~Exists(out.db, id), "Failed to archive article")

\* { status: 'draft', ...updates }: the status of the caller wins
DraftUpdates_KeepsStatus(updates) ==
  IF Has(updates, "status") THEN updates ELSE Put(updates, "status", "draft")

\* { ...updates, status: 'draft' }
DraftUpdates(updates) == Put(updates, "status", "draft")

ArticleService_saveDraft(d, id, updates, t, fault) ==
  IF ~Exists(d, id) THEN Rejected(d, "Article not found")
  ELSE IF Has(updates, "title") /\ Len(updates.title) > MaxDraftTitleLength
       THEN Rejected(d, "Article title is too long (max 1000 characters)")
  ELSE IF Has(updates, "content") /\ Len(updates.content) > MaxDraftContentLength
       THEN Rejected(d, "Article content is too long (max 100,000 characters)")
  ELSE LET out == ArticleRepository_update(d, id, DraftUpdates(updates), t, fault)
       IN Returned(out, ~Exists(out.db, id), "Failed to save draft")

----------------------------------------------------------------------------
(* ArticleController: publish, unpublish, archive and their catch blocks    *)

\* error.message, letter by letter; a rejected store call throws the error
\* of the store
Letters(s) ==
  CASE s = "Article not found" ->
         <<"A", "r", "t", "i", "c", "l", "e", " ", "n", "o", "t", " ", "f",
           "o", "u", "n", "d">>
    [] s = "Article is already published" ->
         <<"A", "r", "t", "i", "c", "l", "e", " ", "i", "s", " ", "a", "l",
           "r", "e", "a", "d", "y", " ", "p", "u", "b", "l", "i", "s", "h",
           "e", "d">>
    [] s = "Cannot publish article without a title" ->
         <<"C", "a", "n", "n", "o", "t", " ", "p", "u", "b", "l", "i", "s",
           "h", " ", "a", "r", "t", "i", "c", "l", "e", " ", "w", "i", "t",
           "h", "o", "u", "t", " ", "a", " ", "t", "i", "t", "l", "e">>
    [] s = "Cannot publish article without content" ->
         <<"C", "a", "n", "n", "o", "t", " ", "p", "u", "b", "l", "i", "s",
           "h", " ", "a", "r", "t", "i", "c", "l", "e", " ", "w", "i", "t",
           "h", "o", "u", "t", " ", "c", "o", "n", "t", "e", "n", "t">>
    [] s = "Failed to publish article" ->
         <<"F", "a", "i", "l", "e", "d", " ", "t", "o", " ", "p", "u", "b",
           "l", "i", "s", "h", " ", "a", "r", "t", "i", "c", "l", "e">>
    [] s = "Article is not published" ->
         <<"A", "r", "t", "i", "c", "l", "e", " ", "i", "s", " ", "n", "o",
           "t", " ", "p", "u", "b", "l", "i", "s", "h", "e", "d">>
    [] s = "Failed to unpublish article" ->
         <<"F", "a", "i", "l", "e", "d", " ", "t", "o", " ", "u", "n", "p",
           "u", "b", "l", "i", "s", "h", " ", "a", "r", "t", "i", "c", "l",
           "e">>
    [] s = "Article is already archived" ->
         <<"A", "r", "t", "i", "c", "l", "e", " ", "i", "s", " ", "a", "l",
           "r", "e", "a", "d", "y", " ", "a", "r", "c", "h", "i", "v", "e",
           "d">>
    [] s = "Failed to archive article" ->
         <<"F", "a", "i", "l", "e", "d", " ", "t", "o", " ", "a", "r", "c",
           "h", "i", "v", "e", " ", "a", "r", "t", "i", "c", "l", "e">>
    [] s = "store unavailable" ->
         <<"s", "t", "o", "r", "e", " ", "u", "n", "a", "v", "a", "i", "l",
           "a", "b", "l", "e">>
    [] s = "Category with name '" ->
         <<"C", "a", "t", "e", "g", "o", "r", "y", " ", "w", "i", "t", "h",
           " ", "n", "a", "m", "e", " ", "'">>
    [] s = "' already exists" ->
         <<"'", " ", "a", "l", "r", "e", "a", "d", "y", " ", "e", "x", "i",
           "s", "t", "s">>
    [] s = "Category with id '" ->
         <<"C", "a", "t", "e", "g", "o", "r", "y", " ", "w", "i", "t", "h",
           " ", "i", "d", " ", "'">>
    [] s = "' not found" ->
         <<"'", " ", "n", "o", "t", " ", "f", "o", "u", "n", "d">>
    [] s = "duplicate key" ->
         <<"d", "u", "p", "l", "i", "c", "a", "t", "e", " ", "k", "e", "y">>
    [] s = "Failed to update category" ->
         <<"F", "a", "i", "l", "e", "d", " ", "t", "o", " ", "u", "p", "d",
           "a", "t", "e", " ", "c", "a", "t", "e", "g", "o", "r", "y">>
    [] s = "Failed to delete category" ->
         <<"F", "a", "i", "l", "e", "d", " ", "t", "o", " ", "d", "e", "l",
           "e", "t", "e", " ", "c", "a", "t", "e", "g", "o", "r", "y">>

\* errorMessage.includes(part): part occurs in text, letter for letter
Includes(text, part) ==
  \E i \in 0..(Len(text) - Len(part)) :
    SubSeq(text, i + 1, i + Len(part)) = part

\* res.status(status).json({error: {code, message}})
Response(status, code, message) ==
  [status |-> status, code |-> code, message |-> message]

\* catch (error) of ArticleController.publish
publish_catch(errorMessage) ==
  IF Includes(errorMessage, <<"n", "o", "t", " ", "f", "o", "u", "n", "d">>)
  THEN Response(404, "NOT_FOUND", errorMessage)
  ELSE IF \/ Includes(errorMessage, <<"a", "l", "r", "e", "a", "d", "y", " ",
                                      "p", "u", "b", "l", "i", "s", "h", "e", "d">>)
          \/ Includes(errorMessage, <<"c", "a", "n", "n", "o", "t", " ",
                                      "p", "u", "b", "l", "i", "s", "h">>)
  THEN Response(400, "VALIDATION_ERROR", errorMessage)
  ELSE Response(500, "INTERNAL_ERROR", Letters("Failed to publish article"))

\* catch (error) of ArticleController.unpublish
unpublish_catch(errorMessage) ==
  IF Includes(errorMessage, <<"n", "o", "t", " ", "f", "o", "u", "n", "d">>)
  THEN Response(404, "NOT_FOUND", errorMessage)
  ELSE IF \/ Includes(errorMessage, <<"n", "o", "t", " ",
                                      "p", "u", "b", "l", "i", "s", "h", "e", "d">>)
          \/ Includes(errorMessage, <<"c", "a", "n", "n", "o", "t", " ", "u", "n",
                                      "p", "u", "b", "l", "i", "s", "h">>)
  THEN Response(400, "VALIDATION_ERROR", errorMessage)
  ELSE Response(500, "INTERNAL_ERROR", Letters("Failed to unpublish article"))

\* catch (error) of ArticleController.archive
archive_catch(errorMessage) ==
  IF Includes(errorMessage, <<"n", "o", "t", " ", "f", "o", "u", "n", "d">>)
  THEN Response(404, "NOT_FOUND", errorMessage)
  ELSE Response(500, "INTERNAL_ERROR", Letters("Failed to archive article"))

\* catch (error) of the handler of op
catch(op, errorMessage) ==
  CASE op = "publish" -> publish_catch(errorMessage)
    [] op = "unpublish" -> unpublish_catch(errorMessage)
    [] op = "archive" -> archive_catch(errorMessage)

\* the response to a request of the author of the article: getById, then
\* the call of the service inside the try block
Responds(op, d, id, out) ==
  IF ~Exists(d, id)
  THEN Response(404, "NOT_FOUND", Letters("Article not found"))
  ELSE IF out.result = "ok"
       THEN Response(200, "success", <<>>)
       ELSE catch(op, Letters(out.result))

ArticleController_publish(d, id, t, fault) ==
  Responds("publish", d, id, ArticleService_publish(d, id, t, fault))

ArticleController_unpublish(d, id, t, fault) ==
  Responds("unpublish", d, id, ArticleService_unpublish(d, id, t, fault))

ArticleController_archive(d, id, t, fault) ==
  Responds("archive", d, id, ArticleService_archive(d, id, t, fault))

----------------------------------------------------------------------------
(* CategoryService and the catch blocks of CategoryController               *)

\* CategoryRepository.update with a patch of the name: the row the UPDATE
\* returns, or null for no row
CategoryRepository_update(d, id, updates) ==
  LET r == IF Has(updates, "name")
           THEN UpdateCategory(d, id, updates.name, generateSlug(updates.name))
           ELSE Ok(d)
  IN IF r.ok THEN Committed(r.db) ELSE RolledBack(d, r.err)

CategoryService_create(d, id, categoryData) ==
  IF CategoryByName(d, categoryData.name) # 0
  THEN Rejected(d, "' already exists")
  ELSE Plain(CategoryRepository_create(d, id, categoryData.name))

CategoryService_update(d, id, updates) ==
  IF id \notin DOMAIN d.categories THEN Rejected(d, "' not found")
  ELSE IF /\ Has(updates, "name") /\ ~Falsy(updates.name)
          /\ updates.name # d.categories[id].name
          /\ CategoryByName(d, updates.name) # 0
       THEN Rejected(d, "' already exists")
  ELSE Plain(CategoryRepository_update(d, id, updates))

CategoryService_delete(d, id, fault) ==
  IF id \notin DOMAIN d.categories THEN Rejected(d, "' not found")
  ELSE Plain(CategoryRepository_delete(d, id, fault))

\* error.message of a call about the category name or, the name being
\* empty, about a category id
CategoryMessage(result, name) ==
  CASE result = "' already exists" ->
         Letters("Category with name '") \o name \o Letters(result)
    [] result = "' not found" ->
         Letters("Category with id '") \o <<"0">> \o Letters(result)
    [] OTHER -> Letters(result)

\* the status of the response of CategoryController create, update, delete
\* to a call that ended with result
CategoryController_status(op, result, name) ==
  LET message == CategoryMessage(result, name)
      notFound == Includes(message, <<"n", "o", "t", " ", "f", "o", "u", "n", "d">>)
      exists == Includes(message, <<"a", "l", "r", "e", "a", "d", "y", " ",
                                    "e", "x", "i", "s", "t", "s">>)
  IN CASE result = "ok" /\ op = "createCategory" -> 201
       [] result = "ok" /\ op = "updateCategory" -> 200
       [] result = "ok" /\ op = "deleteCategory" -> 204
       [] result # "ok" /\ op = "createCategory" -> IF exists THEN 409 ELSE 500
       [] result # "ok" /\ op = "updateCategory" ->
            IF notFound THEN 404 ELSE IF exists THEN 409 ELSE 500
       [] result # "ok" /\ op = "deleteCategory" -> IF notFound THEN 404 ELSE 500

----------------------------------------------------------------------------
(* PublicArticleRepository.findRelatedArticles                              *)

\* match_score: the article_categories rows of the article a with one of
\* categoryIds plus its article_tags rows with one of tagIds
match_score(d, a, categoryIds, tagIds) ==
  Cardinality({r \in d.article_categories : r[1] = a /\ r[2] \in categoryIds})
  + Cardinality({r \in d.article_tags : r[1] = a /\ r[2] \in tagIds})

\* FROM articles a WHERE a.id != $1, whatever the status
OtherArticles_AnyStatus(d, articleId) == DOMAIN d.articles \ {articleId}

\* FROM articles a WHERE a.status = 'published' AND a.id != $1
OtherArticles(d, articleId) ==
  {a \in DOMAIN d.articles : d.articles[a].status = "published" /\ a # articleId}

\* ORDER BY published_at ASC in place of DESC
Precedes_OldestFirst(d, a, b, score) ==
  \/ score[a] > score[b]
  \/ score[a] = score[b] /\ d.articles[a].published_at <= d.articles[b].published_at

\* ORDER BY match_score DESC, published_at DESC: a may come before b
Precedes(d, a, b, score) ==
  \/ score[a] > score[b]
  \/ score[a] = score[b] /\ d.articles[a].published_at >= d.articles[b].published_at

\* the orders in which ORDER BY may return the rows: rows that tie come in
\* any order
Ordered(d, rows, score) ==
  {s \in [1..Cardinality(rows) -> rows] :
     /\ \A i, j \in DOMAIN s : i # j => s[i] # s[j]
     /\ \A i, j \in DOMAIN s : i < j => Precedes(d, s[i], s[j], score)}

\* LIMIT n
Limit(s, n) == SubSeq(s, 1, IF n < Len(s) THEN n ELSE Len(s))

\* the lists of article ids findRelatedArticles may return
findRelatedArticles(d, articleId, limit) ==
  IF ~Exists(d, articleId) \/ d.articles[articleId].status # "published"
  THEN {<<>>}
  ELSE LET article == findById(d, articleId)
           others == OtherArticles(d, articleId)
       IN IF article.categoryIds = {} /\ article.tagIds = {}
          THEN {Limit(s, limit) : s \in Ordered(d, others, [a \in others |-> 0])}
          ELSE LET score == [a \in others |->
                               match_score(d, a, article.categoryIds, article.tagIds)]
                   matches == {a \in others : score[a] > 0}
               IN {Limit(s, limit) : s \in Ordered(d, matches, score)}

\* PublicArticleRepository.findPublished and findPublishedById

\* no startDate and no endDate
NoDateRange == [startDate |-> NullTime, endDate |-> NullTime]

\* WHERE a.id = $1, whatever the status
findPublishedById_AnyStatus(d, id) == IF Exists(d, id) THEN id ELSE 0

\* WHERE a.id = $1 AND a.status = 'published': the id of the row, 0 for null
findPublishedById(d, id) ==
  IF Exists(d, id) /\ d.articles[id].status = "published" THEN id ELSE 0

\* WHERE a.status = 'published' [AND a.published_at >= startDate]
\* [AND a.published_at <= endDate]: the ids of the rows, all pages together
findPublished(d, dateRange) ==
  {a \in DOMAIN d.articles :
     /\ d.articles[a].status = "published"
     /\ dateRange.startDate # NullTime
          => d.articles[a].published_at >= dateRange.startDate
     /\ dateRange.endDate # NullTime
          => d.articles[a].published_at <= dateRange.endDate}


----------------------------------------------------------------------------------------------------------------------------------------
(* History of the articles, kept for the statements about publication       *)

\* everPublished: the articles that have been in status published;
\* firstPublished: for each article the time of the call that first made it
\* published, counted from its creation or from its last committed update
\* that carried clearPublishedAt with status draft or archived
NoHistory == [everPublished |-> {},
              firstPublished |-> [a \in ArticleIds |-> NullTime]]

IsPublished(d, id) == Exists(d, id) /\ d.articles[id].status = "published"

Clears(updates) ==
  Has(updates, "status") /\ updates.status \in {"draft", "archived"}
  /\ ClearPublishedAt(updates)

\* the history after a call made at time t that left the store d; cleared
\* holds the article whose publication record the call cleared, if any
Record(h, d, cleared, t) ==
  [everPublished |->
     {a \in ArticleIds : Exists(d, a) /\ (a \in h.everPublished \/ IsPublished(d, a))},
   firstPublished |->
     [a \in ArticleIds |->
        IF ~Exists(d, a) THEN NullTime
        ELSE IF a \notin cleared /\ h.firstPublished[a] # NullTime
             THEN h.firstPublished[a]
        ELSE IF IsPublished(d, a) THEN t
        ELSE NullTime]]

----------------
(* Requests *)

\* the arrays of at most n ids drawn from ids: duplicates and ids of rows
\* that do not exist included
IdArrays(ids, n) == UNION {[1..k -> ids] : k \in 0..n}

\* the records that give a value to some of the optional fields fs, each a
\* pair [f |-> name, D |-> values]
RECURSIVE Partial(_)
Partial(fs) ==
  IF Len(fs) = 0 THEN {NoRows}
  ELSE LET rest == Partial(Tail(fs))
       IN rest \cup {Put(r, Head(fs).f, v) : r \in rest, v \in Head(fs).D}

AtMost(rs, n) == {r \in rs : Cardinality(DOMAIN r) <= n}

\* UpdateArticleRequest, for the lifecycle of one article; clearPublishedAt is
\* read only next to a status, so it is drawn with a status or alone
LifePatches ==
  LET fields == AtMost(Partial(<<[f |-> "title", D |-> Titles],
                                 [f |-> "content", D |-> Contents],
                                 [f |-> "excerpt", D |-> Excerpts],
                                 [f |-> "status", D |-> Statuses],
                                 [f |-> "categoryIds", D |-> IdArrays(LifeIds, LifeRows)],
                                 [f |-> "tagIds", D |-> IdArrays(LifeIds, LifeRows)]>>),
                       MaxPatchFields)
  IN fields \cup {Put(r, "clearPublishedAt", TRUE) :
                    r \in {q \in fields : DOMAIN q \subseteq {"status"}}}

\* CreateArticleRequest: title and content are required
LifeCreateRequests ==
  {Put(Put(r, "title", ti), "content", c) :
     r \in AtMost(Partial(<<[f |-> "excerpt", D |-> Excerpts \cup {<<>>}],
                            [f |-> "status", D |-> {"draft", "published"}],
                            [f |-> "categoryIds", D |-> IdArrays(LifeIds, LifeRows)],
                            [f |-> "tagIds", D |-> IdArrays(LifeIds, LifeRows)]>>),
                 MaxPatchFields),
     ti \in Titles, c \in Contents}

LifeTagNames == {<<"A">>}
LifeCategoryNames == {<<"A", Sp, "b">>}

\* requests that differ in their category and tag arrays only, for the
\* associations of several articles
AssocArrays ==
  Partial(<<[f |-> "categoryIds", D |-> IdArrays(CategoryIds, MaxIds)],
            [f |-> "tagIds", D |-> IdArrays(TagIds, MaxIds)]>>)

AssocPatches == AtMost(AssocArrays, MaxPatchFields)

AssocCreateRequests ==
  {Put(Put(r, "title", <<"a">>), "content", <<"c">>) : r \in AssocArrays}

AssocTagNames == {<<"a">>, <<"b">>}
AssocCategoryNames == {<<"a">>}

----------------------------------------------------------------------------
(* Rows of a transaction in progress (READ COMMITTED)                       *)

\* the rows of the table new that the table t has not, or has otherwise,
\* and the keys that new has no more
DiffT(t, new) ==
  [put |-> [k \in {j \in DOMAIN new : j \notin DOMAIN t \/ new[j] # t[j]} |-> new[k]],
   del |-> DOMAIN t \ DOMAIN new]

OverlayT(t, w) ==
  [k \in (DOMAIN t \cup DOMAIN w.put) \ w.del |->
     IF k \in DOMAIN w.put THEN w.put[k] ELSE t[k]]

\* what a transaction has written and not yet committed: new is the store
\* as the transaction sees it, d the committed store
Diff(d, new) ==
  [articles |-> DiffT(d.articles, new.articles),
   categories |-> DiffT(d.categories, new.categories),
   tags |-> DiffT(d.tags, new.tags),
   article_categories |-> [add |-> new.article_categories \ d.article_categories,
                           rem |-> d.article_categories \ new.article_categories],
   article_tags |-> [add |-> new.article_tags \ d.article_tags,
                     rem |-> d.article_tags \ new.article_tags]]

NoWrites == Diff(EmptyDb, EmptyDb)

\* the store as a transaction sees it: the committed rows and its own
Overlay(d, w) ==
  [articles |-> OverlayT(d.articles, w.articles),
   categories |-> OverlayT(d.categories, w.categories),
   tags |-> OverlayT(d.tags, w.tags),
   article_categories |-> (d.article_categories \cup w.article_categories.add)
                            \ w.article_categories.rem,
   article_tags |-> (d.article_tags \cup w.article_tags.add)
                      \ w.article_tags.rem]

\* row locks that an UPDATE and an INSERT do not take
RowLocks_DeletedRowsOnly(name, t, new) ==
  {<<"delete", name, <<k, 0>>>> : k \in DOMAIN t \ DOMAIN new}

\* the row locks of a table: one on each row a statement deleted, updated
\* or inserted
RowLocks(name, t, new) ==
  {<<"delete", name, <<k, 0>>>> : k \in DOMAIN t \ DOMAIN new}
  \cup {<<"update", name, <<k, 0>>>> :
          k \in {j \in DOMAIN new : j \notin DOMAIN t \/ new[j] # t[j]}}

\* the locks of a junction table: one on each row deleted or inserted, and
\* a key-share lock on both rows an inserted row references (FOREIGN KEY)
LinkLocks(name, parent, s, new) ==
  {<<"delete", name, r>> : r \in (s \ new) \cup (new \ s)}
  \cup {<<"share", "articles", <<r[1], 0>>>> : r \in new \ s}
  \cup {<<"share", parent, <<r[2], 0>>>> : r \in new \ s}

\* the locks a statement takes when it turns the store view into new
Touched(view, new) ==
  RowLocks("articles", view.articles, new.articles)
  \cup RowLocks("categories", view.categories, new.categories)
  \cup RowLocks("tags", view.tags, new.tags)
  \cup LinkLocks("article_categories", "categories",
                 view.article_categories, new.article_categories)
  \cup LinkLocks("article_tags", "tags", view.article_tags, new.article_tags)

\* row locks that an UPDATE does not take: only a DELETE conflicts
Conflict_DeleteOnly(l, m) ==
  /\ l[2] = m[2] /\ l[3] = m[3]
  /\ "delete" \in {l[1], m[1]}
  /\ ~("share" \in {l[1], m[1]} /\ "delete" \notin {l[1], m[1]})

\* two sessions cannot hold l and m together: they are locks on the same
\* row, and not a key-share lock next to another one or next to an UPDATE
\* of other columns than the key
Conflict(l, m) ==
  /\ l[2] = m[2] /\ l[3] = m[3]
  /\ ~("share" \in {l[1], m[1]} /\ "delete" \notin {l[1], m[1]})

\* a writer that runs no call
Idle == [pc |-> "idle", call |-> [op |-> "none", id |-> 0, updates |-> NoRows],
         i |-> 0, session |-> FALSE, open |-> FALSE, writes |-> NoWrites,
         locks |-> {}, err |-> "none", result |-> "none", overlapped |-> FALSE,
         row |-> 0]

----------------------------------------------------------------------------
(* formatSearchQuery, and the query of PostgresSearchService.searchArticles *)

Bs == "\\"

\* .split(/\s+/): the pieces of s between its runs of white space
RECURSIVE split(_)
split(s) ==
  IF \A i \in DOMAIN s : s[i] # Sp THEN <<s>>
  ELSE LET i == CHOOSE k \in DOMAIN s :
                  s[k] = Sp /\ \A j \in 1..(k - 1) : s[j] # Sp
           rest == TrimLeft(SubSeq(s, i, Len(s)))
       IN <<SubSeq(s, 1, i - 1)>> \o split(rest)

\* .filter(Boolean): the pieces that are not the empty string
filter(terms) == SelectSeq(terms, LAMBDA term : ~Falsy(term))

\* the character class [&|!():*]
SpecialCharacters == {"&", "|", "!", "(", ")", ":", "*"}

\* term.replace(/[&|!():*]/, '\\$&'), without the g flag: the first special
\* character is escaped
RECURSIVE escaped_FirstOnly(_)
escaped_FirstOnly(term) ==
  IF term = <<>> THEN term
  ELSE IF Head(term) \in SpecialCharacters THEN <<Bs, Head(term)>> \o Tail(term)
  ELSE <<Head(term)>> \o escaped_FirstOnly(Tail(term))

\* term.replace(/[&|!():*]/g, '\\$&'): a backslash before every special
\* character
RECURSIVE escaped(_)
escaped(term) ==
  IF term = <<>> THEN term
  ELSE (IF Head(term) \in SpecialCharacters THEN <<Bs, Head(term)>>
                                            ELSE <<Head(term)>>)
       \o escaped(Tail(term))

\* .join(' & ')
RECURSIVE join(_)
join(terms) ==
  IF terms = <<>> THEN <<>>
  ELSE IF Len(terms) = 1 THEN Head(terms)
  ELSE Head(terms) \o <<Sp, "&", Sp>> \o join(Tail(terms))

formatSearchQuery(query) ==
  IF Falsy(query) \/ Falsy(Trim(query)) THEN <<>>
  ELSE LET terms == filter(split(Trim(query)))
       IN join([i \in DOMAIN terms |-> escaped(terms[i]) \o <<":", "*">>])

\* the searchQuery that searchArticles passes as $1, when it does not throw
searchQuery(query) ==
  LET terms == filter(split(Trim(query)))
  IN join([i \in DOMAIN terms |-> terms[i] \o <<":", "*">>])

\* searchArticles up to the query it sends: the error it throws, or "ok"
\* and the value of $1
PostgresSearchService_searchArticles(query) ==
  IF Falsy(Trim(query))
  THEN [result |-> "Search query cannot be empty", expression |-> <<>>]
  ELSE [result |-> "ok", expression |-> searchQuery(query)]

----------------------------------------------------------------------------
(* Actions: one call of a service or repository method each *)

\* no call has been made yet
NoCall == [op |-> "none", id |-> 0, result |-> "ok", was |-> "none",
           dropped |-> 0, again |-> FALSE, limit |-> 0, found |-> <<>>,
           count |-> 0, query |-> <<>>, expression |-> <<>>]

Init ==
  /\ db = EmptyDb
  /\ now = 1
  /\ last = NoCall
  /\ hist = NoHistory
  /\ tx = [w \in Writers |-> Idle]

\* time passes between two calls; the last call is then no longer the
\* latest event
Tick ==
  /\ now < MaxClock
  /\ now' = now + 1
  /\ last' = NoCall
  /\ UNCHANGED <<db, hist, tx>>

\* the status of an article, "none" when there is no such article
StatusOf(d, id) == IF Exists(d, id) THEN d.articles[id].status ELSE "none"

\* the number of junction rows of d that e no longer has
Dropped(d, e) ==
  Cardinality(d.article_categories \ e.article_categories)
  + Cardinality(d.article_tags \ e.article_tags)

\* the call op on id ended with out; last keeps what the caller saw of it:
\* the result, the status the article had, the links it lost, and whether
\* the call replaced the links of the article by those it already had
Done(op, id, out, cleared, again) ==
  /\ db' = out.db
  /\ last' = [op |-> op, id |-> id, result |-> out.result,
              was |-> IF op \in {"create", "update", "delete", "publish",
                                  "unpublish", "archive", "saveDraft"}
                      THEN StatusOf(db, id) ELSE "none",
              dropped |-> Dropped(db, out.db),
              again |-> again, limit |-> 0, found |-> <<>>, count |-> 0,
              query |-> <<>>, expression |-> <<>>]
  /\ hist' = Record(hist, out.db, cleared, now)
  /\ UNCHANGED <<now, tx>>

\* the id the store generates for a new row (gen_random_uuid): one not in use
FreshId(table, ids) == CHOOSE i \in ids \ DOMAIN table :
                         \A j \in ids \ DOMAIN table : i <= j

\* the patch gives the article links, and no others than those it has
Reapplied(d, id, updates) ==
  /\ Exists(d, id)
  /\ \E f \in {"categoryIds", "tagIds"} : Has(updates, f) /\ Len(updates[f]) > 0
  /\ Has(updates, "categoryIds")
       => Range(updates.categoryIds) = getArticleCategoryIds(d, id)
  /\ Has(updates, "tagIds") => Range(updates.tagIds) = getArticleTagIds(d, id)

CreateArticle(ids, articleData, fault) ==
  /\ ids \ DOMAIN db.articles # {}
  /\ LET id == FreshId(db.articles, ids)
     IN Done("create", id, ArticleService_create(db, id, articleData, now, fault), {}, FALSE)

UpdateArticleCall(id, updates, fault) ==
  LET out == ArticleService_update(db, id, updates, now, fault)
  IN Done("update", id, out, IF out.committed /\ Clears(updates) THEN {id} ELSE {},
          out.committed /\ Reapplied(db, id, updates))

DeleteArticleCall(id, fault) ==
  Done("delete", id, ArticleService_delete(db, id, fault), {}, FALSE)

Publish(id, fault) ==
  Done("publish", id, ArticleService_publish(db, id, now, fault), {}, FALSE)

Unpublish(id, fault) ==
  Done("unpublish", id, ArticleService_unpublish(db, id, now, fault), {}, FALSE)

Archive(id, fault) ==
  Done("archive", id, ArticleService_archive(db, id, now, fault), {}, FALSE)

SaveDraft(id, updates, fault) ==
  LET out == ArticleService_saveDraft(db, id, updates, now, fault)
  IN Done("saveDraft", id, out,
          IF out.committed /\ Clears(DraftUpdates(updates)) THEN {id} ELSE {},
          out.committed /\ Reapplied(db, id, updates))

CreateTag(ids, name) ==
  /\ ids \ DOMAIN db.tags # {}
  /\ LET id == FreshId(db.tags, ids)
     IN Done("createTag", id, Plain(TagRepository_create(db, id, name)), {}, FALSE)

DeleteTagCall(id, fault) ==
  Done("deleteTag", id, Plain(TagRepository_delete(db, id, fault)), {}, FALSE)

CreateCategory(ids, name) ==
  /\ ids \ DOMAIN db.categories # {}
  /\ LET id == FreshId(db.categories, ids)
     IN Done("createCategory", id, Plain(CategoryRepository_create(db, id, name)), {}, FALSE)

DeleteCategoryCall(id, fault) ==
  Done("deleteCategory", id, Plain(CategoryRepository_delete(db, id, fault)), {},
       FALSE)

\* TagServiceImpl.cleanupUnusedTags: last keeps the number it returned
CleanupUnusedTags ==
  LET out == TagRepository_cleanupUnusedTags(db)
  IN /\ db' = out.db
     /\ last' = [NoCall EXCEPT !.op = "cleanupUnusedTags", !.count = out.count]
     /\ hist' = Record(hist, out.db, {}, now)
     /\ UNCHANGED <<now, tx>>

\* the calls of CategoryService; a category gets the first free id
CreateCategoryCall(name) ==
  LET free == (1..CategoryRows) \ DOMAIN db.categories
      id == IF free = {} THEN CategoryRows + 1 ELSE FreshId(db.categories, 1..CategoryRows)
  IN Done("createCategory", id, CategoryService_create(db, id, [name |-> name]),
          {}, FALSE)

UpdateCategoryCall(id, name) ==
  Done("updateCategory", id, CategoryService_update(db, id, [name |-> name]),
       {}, FALSE)

DeleteCategoryServiceCall(id, fault) ==
  Done("deleteCategory", id, CategoryService_delete(db, id, fault), {}, FALSE)

\* the names of the categories: at least two characters
CategoryNames == {<<"a", "b">>, <<"n", "o", "t", Sp, "f", "o", "u", "n", "d">>}

\* an article in some of the categories, with the tag or without it
CategoryCreateRequests ==
  {[title |-> <<"a">>, content |-> <<"c">>, categoryIds |-> c, tagIds |-> t] :
     c \in {<<>>, <<1>>, <<2>>, <<1, 2>>}, t \in {<<>>, <<1>>}}

\* the store with one tag
InitCategory ==
  /\ db = TagRepository_create(EmptyDb, 1, <<"a">>).db
  /\ now = 1
  /\ last = NoCall
  /\ hist = NoHistory
  /\ tx = [w \in Writers |-> Idle]

NextCategory ==
  \/ \E n \in CategoryNames : CreateCategoryCall(n)
  \/ \E id \in 1..CategoryRows, n \in CategoryNames : UpdateCategoryCall(id, n)
  \/ \E id \in 1..CategoryRows, f \in Faults : DeleteCategoryServiceCall(id, f)
  \/ \E r \in CategoryCreateRequests : CreateArticle(LifeIds, r, "none")
  \/ \E id \in LifeIds : DeleteArticleCall(id, "none")

SpecCategory == InitCategory /\ [][NextCategory]_vars

\* the lifecycle of an article, the store answering every call
Next ==
  \/ Tick
  \/ \E r \in LifeCreateRequests : CreateArticle(LifeIds, r, "none")
  \/ \E id \in LifeIds, u \in LifePatches : UpdateArticleCall(id, u, "none")
  \/ \E id \in LifeIds : DeleteArticleCall(id, "none")
  \/ \E id \in LifeIds : Publish(id, "none")
  \/ \E id \in LifeIds : Unpublish(id, "none")
  \/ \E id \in LifeIds : Archive(id, "none")
  \/ \E id \in LifeIds, u \in LifePatches : SaveDraft(id, u, "none")
  \/ \E n \in LifeTagNames : CreateTag(LifeIds, n)
  \/ \E id \in LifeIds : DeleteTagCall(id, "none")
  \/ \E n \in LifeCategoryNames : CreateCategory(LifeIds, n)
  \/ \E id \in LifeIds : DeleteCategoryCall(id, "none")

Spec == Init /\ [][Next]_vars

\* the associations of several articles, the store failing some calls
NextAssoc ==
  \/ \E r \in AssocCreateRequests, f \in Faults : CreateArticle(ArticleIds, r, f)
  \/ \E id \in ArticleIds, u \in AssocPatches, f \in Faults :
       UpdateArticleCall(id, u, f)
  \/ \E id \in ArticleIds, f \in Faults : DeleteArticleCall(id, f)
  \/ \E n \in AssocTagNames : CreateTag(TagIds, n)
  \/ \E id \in TagIds, f \in Faults : DeleteTagCall(id, f)
  \/ CleanupUnusedTags
  \/ \E n \in AssocCategoryNames : CreateCategory(CategoryIds, n)
  \/ \E id \in CategoryIds, f \in Faults : DeleteCategoryCall(id, f)

SpecAssoc == Init /\ [][NextAssoc]_vars

\* a reader asks for the articles related to the article id: last keeps the
\* list it was given
FindRelated(id, limit) ==
  /\ \E found \in findRelatedArticles(db, id, limit) :
       last' = [NoCall EXCEPT !.op = "findRelated", !.id = id,
                              !.was = StatusOf(db, id),
                              !.limit = limit, !.found = found]
  /\ UNCHANGED <<db, now, hist, tx>>

\* the articles a reader finds related: with or without the category and
\* the tag, as drafts or published
RelatedCreateRequests ==
  {[title |-> <<"a">>, content |-> <<"c">>, status |-> s,
    categoryIds |-> c, tagIds |-> t] :
     s \in {"draft", "published"}, c \in {<<>>, <<1>>}, t \in {<<>>, <<1>>}}

\* the store with one category and one tag
InitRelated ==
  /\ db = CategoryRepository_create(TagRepository_create(EmptyDb, 1, <<"a">>).db,
                                    1, <<"a">>).db
  /\ now = 1
  /\ last = NoCall
  /\ hist = NoHistory
  /\ tx = [w \in Writers |-> Idle]

NextRelated ==
  \/ Tick
  \/ \E r \in RelatedCreateRequests : CreateArticle(RelatedIds, r, "none")
  \/ \E id \in RelatedIds : Archive(id, "none")
  \/ \E id \in RelatedIds, limit \in 1..MaxLimit : FindRelated(id, limit)

SpecRelated == InitRelated /\ [][NextRelated]_vars

\* the raw queries: texts of at most MaxQueryLength characters
QueryCharacters == {"a", Sp, "&", ":", "*"}
Queries == UNION {[1..n -> QueryCharacters] : n \in 0..MaxQueryLength}

\* a caller formats the raw text query: last keeps the text and the
\* expression returned
FormatSearchQuery(query) ==
  /\ last' = [NoCall EXCEPT !.op = "formatSearchQuery", !.query = query,
                            !.expression = formatSearchQuery(query)]
  /\ UNCHANGED <<db, now, hist, tx>>

\* a caller searches for the raw text query: last keeps the text and the
\* expression sent to the store
SearchArticles(query) ==
  /\ LET out == PostgresSearchService_searchArticles(query)
     IN last' = [NoCall EXCEPT !.op = "searchArticles", !.query = query,
                               !.result = out.result,
                               !.expression = out.expression]
  /\ UNCHANGED <<db, now, hist, tx>>

NextSearch ==
  \/ \E query \in Queries : FormatSearchQuery(query)
  \/ \E query \in Queries : SearchArticles(query)

SpecSearch == Init /\ [][NextSearch]_vars

----------------------------------------------------------------------------
(* Calls that run at the same time: one action per await                    *)

\* the statements of a repository method, in the order of its awaits
Program(call) ==
  LET u == call.updates
      links(f, del, ins) ==
        IF ~Has(u, f) THEN <<>>
        ELSE IF Len(u[f]) > 0 THEN <<del, ins>> ELSE <<del>>
      inserts(f, ins) == IF Has(u, f) /\ Len(u[f]) > 0 THEN <<ins>> ELSE <<>>
  IN CASE call.op = "create" ->
            <<"InsertArticle">> \o inserts("categoryIds", "associateCategories")
                                \o inserts("tagIds", "associateTags")
       [] call.op = "update" ->
            (IF HasSetClause(u) THEN <<"UpdateArticle">> ELSE <<>>)
            \o links("categoryIds", "DeleteArticleCategories", "associateCategories")
            \o links("tagIds", "DeleteArticleTags", "associateTags")
       [] call.op = "delete" ->
            <<"DeleteArticleCategories", "DeleteArticleTags", "DeleteArticle">>
       [] call.op = "publish" -> <<"UpdateArticle">>
       [] call.op = "findOrCreate" -> <<"InsertTag">>
       [] call.op = "createCategory" -> <<"InsertCategory">>
       [] OTHER -> <<>>

\* one statement of a call, on the store d as its transaction sees it
Exec(name, d, call, t) ==
  CASE name = "InsertArticle" -> InsertArticle(d, call.id, NewArticleRow(call.updates, t))
    [] name = "UpdateArticle" -> UpdateArticle(d, call.id, call.updates, t)
    [] name = "associateCategories" -> associateCategories(d, call.id, call.updates.categoryIds)
    [] name = "associateTags" -> associateTags(d, call.id, call.updates.tagIds)
    [] name = "DeleteArticleCategories" -> DeleteArticleCategories(d, call.id)
    [] name = "DeleteArticleTags" -> DeleteArticleTags(d, call.id)
    [] name = "DeleteArticle" -> DeleteArticle(d, call.id)
    [] name = "InsertTag" ->
         InsertTag(d, call.id, Trim(call.updates.name),
                   generateSlug(Trim(call.updates.name)))
    [] name = "InsertCategory" ->
         InsertCategory(d, call.id, call.updates.name, generateSlug(call.updates.name))
    [] OTHER -> Fail(d, "no such statement")

\* the checks of publish without the one on the status
publish_checks_TitleAndContentOnly(d, id) ==
  IF ~Exists(d, id) THEN "Article not found"
  ELSE IF Blank(d.articles[id].title) THEN "Cannot publish article without a title"
  ELSE IF Blank(d.articles[id].content) THEN "Cannot publish article without content"
  ELSE "ok"

\* ArticleService.publish before its call of the repository: findById and
\* the checks on the article it returned
publish_checks(d, id) ==
  IF ~Exists(d, id) THEN "Article not found"
  ELSE IF d.articles[id].status = "published" THEN "Article is already published"
  ELSE IF Blank(d.articles[id].title) THEN "Cannot publish article without a title"
  ELSE IF Blank(d.articles[id].content) THEN "Cannot publish article without content"
  ELSE "ok"

\* what the service does before it calls the repository: its checks and,
\* for update and delete, its findById on the committed store
ServiceChecks(d, call) ==
  CASE call.op = "create" ->
         IF Blank(call.updates.title) THEN "Article title is required"
         ELSE IF Blank(call.updates.content) THEN "Article content is required"
         ELSE "ok"
    [] call.op = "update" ->
         IF ~Exists(d, call.id) THEN "Article not found"
         ELSE IF Has(call.updates, "title") /\ Blank(call.updates.title)
              THEN "Article title cannot be empty"
         ELSE IF Has(call.updates, "content") /\ Blank(call.updates.content)
              THEN "Article content cannot be empty"
         ELSE "ok"
    [] call.op = "delete" ->
         IF ~Exists(d, call.id) THEN "Article not found" ELSE "ok"
    [] call.op = "publish" -> publish_checks(d, call.id)
    [] call.op = "findOrCreate" ->
         IF Falsy(call.updates.name) \/ Trim(call.updates.name) = <<>>
         THEN "Tag name cannot be empty" ELSE "ok"
    [] call.op = "createCategory" ->
         IF CategoryByName(d, call.updates.name) # 0
         THEN "' already exists" ELSE "ok"
    [] OTHER -> "ok"

\* findByName of the call that returns the row it finds: its id, or 0
Found(d, call) ==
  IF call.op = "findOrCreate" THEN TagByName(d, Trim(call.updates.name)) ELSE 0

\* the calls that run one statement on the pool (db.query), with no
\* transaction of their own
OnPool(call) == call.op \in {"findOrCreate", "createCategory"}

\* the locks the other sessions hold
HeldByOthers(w) == UNION {tx[v].locks : v \in Writers \ {w}}

Blocked(w, need) ==
  \E l \in need, m \in HeldByOthers(w) : Conflict(l, m)

Set(w, p) == tx' = [tx EXCEPT ![w] = p]

\* a call arrives and runs up to its first await on a session
Call(w, call) ==
  /\ tx[w].pc = "idle"
  /\ LET checked == ServiceChecks(db, call)
     IN Set(w, IF checked # "ok"
               THEN [tx[w] EXCEPT !.call = call, !.pc = "done", !.result = checked]
               ELSE IF Found(db, call) # 0
               THEN [tx[w] EXCEPT !.call = call, !.pc = "done", !.result = "ok",
                                  !.row = Found(db, call)]
               ELSE [tx[w] EXCEPT !.call = call,
                                  !.pc = IF OnPool(call) THEN "query" ELSE "getClient"])
  /\ UNCHANGED <<db, now, last, hist>>

\* const client = await db.getClient(): outside the try block
GetClient(w) ==
  /\ tx[w].pc = "getClient"
  /\ \/ Set(w, [tx[w] EXCEPT !.session = TRUE, !.pc = "begin"])
     \/ Set(w, [tx[w] EXCEPT !.pc = "done", !.result = "store unavailable"])
  /\ UNCHANGED <<db, now, last, hist>>

\* the pc after the statement i of the call
After(call, i) == IF i < Len(Program(call)) THEN "statement" ELSE "commit"

\* await client.query('BEGIN')
Begin(w) ==
  /\ tx[w].pc = "begin"
  /\ \/ Set(w, [tx[w] EXCEPT !.open = TRUE, !.i = 1,
                             !.pc = After(tx[w].call, 0),
                             !.overlapped = \E v \in Writers \ {w} : tx[v].open])
     \/ Set(w, [tx[w] EXCEPT !.err = "store unavailable", !.pc = "rollback"])
  /\ UNCHANGED <<db, now, last, hist>>

\* one await client.query(...) of the transaction: it waits while a row it
\* writes is locked by another session, and it may fail
Statement(w) ==
  /\ tx[w].pc = "statement"
  /\ LET view == Overlay(db, tx[w].writes)
         r == Exec(Program(tx[w].call)[tx[w].i], view, tx[w].call, now)
     IN \/ /\ r.ok
           /\ ~Blocked(w, Touched(view, r.db))
           /\ Set(w, [tx[w] EXCEPT !.writes = Diff(db, r.db),
                                   !.locks = @ \cup Touched(view, r.db),
                                   !.i = @ + 1,
                                   !.pc = After(tx[w].call, tx[w].i)])
        \/ /\ ~r.ok
           /\ Set(w, [tx[w] EXCEPT !.err = r.err, !.pc = "rollback"])
        \/ Set(w, [tx[w] EXCEPT !.err = "store unavailable", !.pc = "rollback"])
  /\ UNCHANGED <<db, now, last, hist>>

\* await client.query('COMMIT'): the rows of the transaction become the
\* committed ones, or the COMMIT fails
Commit(w) ==
  /\ tx[w].pc = "commit"
  /\ \/ /\ db' = Overlay(db, tx[w].writes)
        /\ Set(w, [tx[w] EXCEPT !.open = FALSE, !.writes = NoWrites, !.locks = {},
                                !.pc = IF tx[w].call.op = "delete"
                                       THEN "release" ELSE "readback",
                                !.result = "ok"])
     \/ /\ Set(w, [tx[w] EXCEPT !.err = "store unavailable", !.pc = "rollback"])
        /\ UNCHANGED db
  /\ UNCHANGED <<now, last, hist>>

\* return await this.findById(id): after the COMMIT, inside the try block
ReadBackStep(w) ==
  /\ tx[w].pc = "readback"
  /\ \/ Set(w, [tx[w] EXCEPT !.pc = "release",
                             !.result = IF tx[w].call.op = "update"
                                           /\ ~Exists(db, tx[w].call.id)
                                        THEN "Failed to update article"
                                        ELSE "ok"])
     \/ Set(w, [tx[w] EXCEPT !.err = "store unavailable", !.pc = "rollback"])
  /\ UNCHANGED <<db, now, last, hist>>

\* catch: await client.query('ROLLBACK'); throw error.  The ROLLBACK ends
\* the transaction, or fails: then its own error is thrown, and the
\* transaction has ended on the server or has not
Rollback(w) ==
  /\ tx[w].pc = "rollback"
  /\ \/ Set(w, [tx[w] EXCEPT !.open = FALSE, !.writes = NoWrites, !.locks = {},
                             !.pc = "release", !.result = tx[w].err])
     \/ Set(w, [tx[w] EXCEPT !.open = FALSE, !.writes = NoWrites, !.locks = {},
                             !.pc = "release", !.result = "store unavailable"])
     \/ Set(w, [tx[w] EXCEPT !.pc = "release", !.result = "store unavailable"])
  /\ UNCHANGED <<db, now, last, hist>>

\* finally: client.release(); the session goes back to the pool as it is
Release(w) ==
  /\ tx[w].pc = "release"
  /\ Set(w, [tx[w] EXCEPT !.session = FALSE, !.pc = "done"])
  /\ UNCHANGED <<db, now, last, hist>>

\* await db.query(...): the one statement of a call that runs on the pool.
\* The statement commits by itself; the store gives the new row its id
Query(w) ==
  /\ tx[w].pc = "query"
  /\ LET table == IF tx[w].call.op = "findOrCreate" THEN db.tags ELSE db.categories
         id == FreshId(table, 1..(Cardinality(DOMAIN table) + 1))
         r == Exec(Program(tx[w].call)[1], db, [tx[w].call EXCEPT !.id = id], now)
     IN \/ /\ r.ok
           /\ db' = r.db
           /\ Set(w, [tx[w] EXCEPT !.pc = "done", !.result = "ok", !.row = id])
        \/ /\ ~r.ok
           /\ Set(w, [tx[w] EXCEPT !.pc = "done", !.result = r.err])
           /\ UNCHANGED db
        \/ /\ Set(w, [tx[w] EXCEPT !.pc = "done", !.result = "store unavailable"])
           /\ UNCHANGED db
  /\ UNCHANGED <<now, last, hist>>

\* the calls that race: both writers publish the article 1, ask for the tag
\* of one name, or create the category of one name
RaceNames == {<<"a">>, <<"a", Sp>>}

RaceCalls ==
  {[op |-> "publish", id |-> 1, updates |-> [status |-> "published"]]}
  \cup {[op |-> "findOrCreate", id |-> 0, updates |-> [name |-> n]] : n \in RaceNames}
  \cup {[op |-> "createCategory", id |-> 0, updates |-> [name |-> <<"a">>]]}

\* the store with the article 1, a draft
InitRace ==
  /\ db = ArticleService_create(EmptyDb, 1, [title |-> <<"a">>, content |-> <<"c">>],
                                1, "none").db
  /\ now = 1
  /\ last = NoCall
  /\ hist = NoHistory
  /\ tx = [w \in Writers |-> Idle]

NextRace ==
  \/ \E w \in Writers : \E c \in RaceCalls : Call(w, c)
  \/ \E w \in Writers : Query(w)
  \/ \E w \in Writers : GetClient(w)
  \/ \E w \in Writers : Begin(w)
  \/ \E w \in Writers : Statement(w)
  \/ \E w \in Writers : Commit(w)
  \/ \E w \in Writers : ReadBackStep(w)
  \/ \E w \in Writers : Rollback(w)
  \/ \E w \in Writers : Release(w)

SpecRace == InitRace /\ [][NextRace]_vars

\* the stores the writers start from: two tags, the article 1 and, in
\* some of them, the article 2, as create leaves them
TxTagLists == {<<>>, <<1>>, <<1, 2>>}

TxCreateRequests ==
  {[title |-> <<"a">>, content |-> <<"c">>, tagIds |-> ids] : ids \in TxTagLists}

TwoTags ==
  TagRepository_create(TagRepository_create(EmptyDb, 1, <<"a">>).db, 2, <<"b">>).db

TxStores ==
  LET one == {ArticleService_create(TwoTags, 1, r, 1, "none").db :
                r \in TxCreateRequests}
  IN one \cup {ArticleService_create(d, 2, r, 1, "none").db :
                 d \in one, r \in TxCreateRequests}

\* the patch of one field of an article: the writer 1 patches the title,
\* any other writer the content
TxPatch(w) == IF w = 1 THEN [title |-> <<"b">>] ELSE [content |-> <<"d">>]

\* the calls of the writer w: it replaces the tags of its own article w,
\* deletes it or creates it, or patches one field of the article 1, the
\* writer 1 its title and the writer 2 its content
TxCalls(w) ==
  {[op |-> "update", id |-> w, updates |-> [tagIds |-> ids]] : ids \in TxTagLists}
  \cup {[op |-> "delete", id |-> w, updates |-> NoRows]}
  \cup {[op |-> "create", id |-> w, updates |-> r] : r \in TxCreateRequests}
  \cup {[op |-> "update", id |-> 1, updates |-> TxPatch(w)]}

InitTx ==
  /\ db \in TxStores
  /\ now = 1
  /\ last = NoCall
  /\ hist = NoHistory
  /\ tx = [w \in Writers |-> Idle]

NextTx ==
  \/ \E w \in Writers : \E c \in TxCalls(w) :
       /\ c.op = "create" => ~Exists(db, c.id)
       /\ Call(w, c)
  \/ \E w \in Writers : GetClient(w)
  \/ \E w \in Writers : Begin(w)
  \/ \E w \in Writers : Statement(w)
  \/ \E w \in Writers : Commit(w)
  \/ \E w \in Writers : ReadBackStep(w)
  \/ \E w \in Writers : Rollback(w)
  \/ \E w \in Writers : Release(w)

SpecTx == InitTx /\ [][NextTx]_vars

----------------------------------------------------------------------------
(* Properties *)

\* the number of article_tags rows of the store d that reference the tag t
LinkCount(d, t) == Cardinality({r \in d.article_tags : r[2] = t})

\* C1: after any sequence of article create, update, delete, tag create and
\* tag delete, every tag's usage_count equals the number of article_tags rows
\* that reference the tag
C1_UsageCountMatchesLinks ==
  \A t \in DOMAIN db.tags : db.tags[t].usage_count = LinkCount(db, t)

\* an update has just replaced the tags of an article, dropping a link, and
\* some tag is used by two articles
C1_Witness ==
  /\ last.op = "update" /\ last.result = "ok" /\ last.dropped > 0
  /\ \E t \in DOMAIN db.tags : db.tags[t].usage_count = 2

\* C2, as stated: a create, update or delete of an article that raises an
\* error to its caller leaves the store exactly as it was before the call
C2_ErrorLeavesStoreUnchanged ==
  [][(/\ last'.op \in {"create", "update", "delete"}
      /\ last'.result # "ok")
     => db' = db]_vars

\* the messages of the errors publish throws
AlreadyPublished == "Article is already published"
CannotPublish == {"Cannot publish article without a title",
                  "Cannot publish article without content"}

\* C3, as stated: publish on a published article fails with the conflict
\* error, publish on an article whose title or content is blank fails with
\* a validation error, and in both cases the store is left as it was
C3_PublishRejections ==
  \A a \in DOMAIN db.articles :
    LET row == db.articles[a]
        out == ArticleService_publish(db, a, now, "none")
    IN /\ row.status = "published"
            => out.result = AlreadyPublished /\ out.db = db
       /\ Blank(row.title) \/ Blank(row.content)
            => out.result \in CannotPublish /\ out.db = db

C5_PublishedAtIffEverPublished ==
  \A a \in DOMAIN db.articles :
    db.articles[a].published_at # NullTime <=> a \in hist.everPublished

\* C5, amended: an article's published_at is set if and only if the article
\* has been published at least once since its creation or, if there is one,
\* since the last update or saveDraft that carried clearPublishedAt and left
\* it draft or archived
C5_PublishedAtIffPublishedSinceClear ==
  \A a \in DOMAIN db.articles :
    db.articles[a].published_at # NullTime <=> hist.firstPublished[a] # NullTime

\* an article that was published once is no longer published and still has
\* its published_at
C5_Witness ==
  \E a \in DOMAIN db.articles :
    /\ a \in hist.everPublished
    /\ db.articles[a].status # "published"
    /\ db.articles[a].published_at # NullTime

\* C6: unpublish succeeds only when the status is exactly published, and
\* then leaves the article draft; on a draft or an archived article it
\* fails with 'Article is not published' and changes nothing
C6_UnpublishOnlyFromPublished ==
  \A a \in DOMAIN db.articles :
    LET row == db.articles[a]
        out == ArticleService_unpublish(db, a, now, "none")
    IN IF row.status = "published"
       THEN out.result = "ok" /\ out.db.articles[a].status = "draft"
       ELSE out.result = "Article is not published" /\ out.db = db

\* unpublish has just been refused on an archived article
C6_Witness ==
  /\ last.op = "unpublish" /\ last.result = "Article is not published"
  /\ last.was = "archived"
  /\ db.articles[last.id].status = "archived"

\* C7: archive succeeds from draft and from published and leaves the
\* article archived; on an archived article it fails and changes nothing
C7_ArchiveFromDraftOrPublished ==
  \A a \in DOMAIN db.articles :
    LET row == db.articles[a]
        out == ArticleService_archive(db, a, now, "none")
    IN IF row.status \in {"draft", "published"}
       THEN out.result = "ok" /\ out.db.articles[a].status = "archived"
       ELSE out.result # "ok" /\ out.db = db

\* a published article has just been archived
C7_Witness ==
  /\ last.op = "archive" /\ last.result = "ok"
  /\ last.was = "published"
  /\ db.articles[last.id].status = "archived"

\* the messages of the validation errors on an empty title or content
EmptinessErrors == {"Article title cannot be empty",
                    "Article content cannot be empty",
                    "Article title is required",
                    "Article content is required"}

\* C8: after a saveDraft that succeeds the article is draft, whatever its
\* status was and whatever status the patch carries, and saveDraft takes an
\* empty title or content without a validation error
C8_SaveDraftForcesDraft ==
  \A a \in DOMAIN db.articles, u \in LifePatches :
    LET out == ArticleService_saveDraft(db, a, u, now, "none")
    IN /\ out.result = "ok" => out.db.articles[a].status = "draft"
       /\ out.result \notin EmptinessErrors
       /\ (DOMAIN u \subseteq {"title", "content", "status"}) => out.result = "ok"

\* saveDraft has just taken an empty title for a published article, which
\* is draft now
C8_Witness ==
  /\ last.op = "saveDraft" /\ last.result = "ok"
  /\ last.was = "published"
  /\ db.articles[last.id].title = <<>>
  /\ db.articles[last.id].status = "draft"

\* C9: an update that succeeds changes only what its patch supplies: each of
\* title, content, excerpt, status, the category set and the tag set that
\* the patch does not have keeps its value
C9_UpdatePatchesSuppliedFieldsOnly ==
  \A a \in DOMAIN db.articles, u \in LifePatches :
    LET out == ArticleService_update(db, a, u, now, "none")
        old == db.articles[a]
        new == out.db.articles[a]
    IN out.result = "ok" =>
         /\ \A f \in {"title", "content", "excerpt", "status"} :
              ~Has(u, f) => new[f] = old[f]
         /\ ~Has(u, "categoryIds")
              => getArticleCategoryIds(out.db, a) = getArticleCategoryIds(db, a)
         /\ ~Has(u, "tagIds")
              => getArticleTagIds(out.db, a) = getArticleTagIds(db, a)

\* an update has just succeeded on an article that is published with a
\* title, an excerpt, a category and a tag: no patch supplies all of them
C9_Witness ==
  /\ last.op = "update" /\ last.result = "ok"
  /\ Exists(db, last.id)
  /\ db.articles[last.id].status = "published"
  /\ db.articles[last.id].excerpt # NullText
  /\ getArticleCategoryIds(db, last.id) # {}
  /\ getArticleTagIds(db, last.id) # {}

\* C10: after an update that commits a patch with categoryIds = S (tagIds =
\* S) the categories (tags) of the article are exactly those of S, none of
\* the former links being kept; with S empty the article has none left
C10_UpdateReplacesAssociations ==
  \A a \in DOMAIN db.articles, u \in AssocPatches, f \in Faults :
    LET out == ArticleService_update(db, a, u, now, f)
    IN out.committed =>
         /\ Has(u, "categoryIds")
              => getArticleCategoryIds(out.db, a) = Range(u.categoryIds)
         /\ Has(u, "tagIds")
              => getArticleTagIds(out.db, a) = Range(u.tagIds)

\* an update has just replaced the links of an article: it dropped one and
\* the article has another
C10_Witness ==
  /\ last.op = "update" /\ last.result = "ok" /\ last.dropped > 0
  /\ getArticleTagIds(db, last.id) # {}

\* the ids a request gives for the field f, none when it has no such field
Requested(articleData, f) ==
  IF Has(articleData, f) THEN Range(articleData[f]) ELSE {}

\* C11: the article that create returns has exactly the requested
\* categories and tags, as sets (none when none are requested), and create
\* returns one for every request that names existing categories and tags,
\* each once
C11_CreateReturnsRequestedSets ==
  \A r \in AssocCreateRequests :
    ArticleIds \ DOMAIN db.articles # {} =>
      LET id == FreshId(db.articles, ArticleIds)
          out == ArticleService_create(db, id, r, now, "none")
      IN /\ out.result = "ok" =>
              /\ findById(out.db, id).categoryIds = Requested(r, "categoryIds")
              /\ findById(out.db, id).tagIds = Requested(r, "tagIds")
         /\ (/\ Requested(r, "categoryIds") \subseteq DOMAIN db.categories
             /\ Requested(r, "tagIds") \subseteq DOMAIN db.tags
             /\ ~(Has(r, "categoryIds") /\ HasDuplicates(r.categoryIds))
             /\ ~(Has(r, "tagIds") /\ HasDuplicates(r.tagIds)))
            => out.result = "ok"

\* create has just returned an article with a category and two tags
C11_Witness ==
  /\ last.op = "create" /\ last.result = "ok"
  /\ findById(db, last.id).categoryIds = CategoryIds
  /\ findById(db, last.id).tagIds = TagIds

\* no junction row of the store d references the article a, and no list of
\* a category or of a tag has it
Unlinked(d, a) ==
  /\ \A r \in d.article_categories \cup d.article_tags : r[1] # a
  /\ \A c \in CategoryIds : a \notin findByCategory(d, c)
  /\ \A t \in TagIds : a \notin findByTag(d, t)

\* C12: a delete that succeeds leaves no article_categories row and no
\* article_tags row of the article, and as long as the article is gone no
\* list of a category or of a tag has it
C12_DeleteRemovesAssociations ==
  /\ \A a \in DOMAIN db.articles :
       LET out == ArticleService_delete(db, a, "none")
       IN out.result = "ok" => ~Exists(out.db, a) /\ Unlinked(out.db, a)
  /\ \A a \in ArticleIds \ DOMAIN db.articles : Unlinked(db, a)

\* a published article that had a category and a tag has just been deleted
C12_Witness ==
  /\ last.op = "delete" /\ last.result = "ok"
  /\ last.was = "published"
  /\ last.dropped = 2
  /\ Unlinked(db, last.id)

\* C13: replacing the categories or the tags of an article by the same ids
\* twice, in two updates in a row or twice inside one transaction, leaves
\* the junction rows and the usage counts that replacing them once leaves;
\* so does replacing them by nothing twice
C13_ReplacementIsIdempotent ==
  \A a \in DOMAIN db.articles :
    /\ \A ids \in IdArrays(CategoryIds, MaxIds) :
         LET once == updateCategoryAssociations(db, a, ids)
             twice == updateCategoryAssociations(once.db, a, ids)
         IN once.ok => twice.ok /\ twice.db = once.db
    /\ \A ids \in IdArrays(TagIds, MaxIds) :
         LET once == updateTagAssociations(db, a, ids)
             twice == updateTagAssociations(once.db, a, ids)
         IN once.ok => twice.ok /\ twice.db = once.db
    /\ \A u \in AssocPatches :
         LET once == ArticleService_update(db, a, u, now, "none")
             twice == ArticleService_update(once.db, a, u, now, "none")
         IN once.result = "ok" => twice.result = "ok" /\ twice.db = once.db

\* an update has just replaced the tags of an article by the two tags it
\* had: the rows and the usage counts are those of before
C13_Witness ==
  /\ last.op = "update" /\ last.result = "ok" /\ last.again
  /\ getArticleTagIds(db, last.id) = TagIds
  /\ \A t \in TagIds : db.tags[t].usage_count = LinkCount(db, t)

\* no writer has a transaction open
Quiescent == \A w \in Writers : ~tx[w].open

\* C14: when writers insert and delete article_tags rows of the same tag at
\* the same time, each for its own article, then once every transaction has
\* committed or rolled back the usage_count of every tag is the number of
\* its article_tags rows
C14_ConcurrentWritersKeepCounts ==
  Quiescent =>
    \A t \in DOMAIN db.tags : db.tags[t].usage_count = LinkCount(db, t)

\* the writer w has run an update or a create that links its article to the
\* tag 1, in a transaction that committed
LinkedTagOne(w) ==
  /\ tx[w].pc = "done" /\ tx[w].result = "ok"
  /\ tx[w].call.op \in {"update", "create"}
  /\ tx[w].call.id = w
  /\ Has(tx[w].call.updates, "tagIds")
  /\ 1 \in Range(tx[w].call.updates.tagIds)

\* both writers have linked their article to the tag 1 in transactions that
\* were open together, and the tag counts both links
C14_Witness ==
  /\ LinkedTagOne(1) /\ LinkedTagOne(2)
  /\ tx[1].overlapped \/ tx[2].overlapped
  /\ db.tags[1].usage_count = 2

\* C15: every session acquired by a transactional operation is released on
\* every exit path, after the commit, after an error in a statement and
\* after an error raised by the ROLLBACK itself, and every transaction that
\* was begun has been ended by a COMMIT or a ROLLBACK when its session is
\* released
C15_SessionsReleasedTransactionsEnded ==
  \A w \in Writers :
    /\ tx[w].pc = "done" => ~tx[w].session
    /\ tx[w].pc \in {"release", "done"} => ~tx[w].open

\* the part of C15 about the release alone: a call that has returned or
\* thrown holds no session
SessionsReleased ==
  \A w \in Writers : tx[w].pc = "done" => ~tx[w].session

\* the writer w has patched its one field of the article 1 and the call
\* has returned the article
Patched(w) ==
  /\ tx[w].pc = "done" /\ tx[w].result = "ok"
  /\ tx[w].call = [op |-> "update", id |-> 1, updates |-> TxPatch(w)]

\* the article 1 of the store d has lost the field that the writer w patched
Overwritten(d, w) ==
  \E f \in DOMAIN TxPatch(w) : d.articles[1][f] # TxPatch(w)[f]

\* the stores two updates of the article 1 can leave, one patching the
\* title and one the content: the row lock of the first UPDATE holds the
\* second one back until the first transaction has ended, so the two
\* statements run in one order or the other
AfterBothPatches(d) ==
  {UpdateArticle(UpdateArticle(d, 1, TxPatch(o[1]), now).db,
                 1, TxPatch(o[2]), now).db : o \in {<<1, 2>>, <<2, 1>>}}

\* C16: two concurrent update calls on the same article, one patching only
\* the title and the other only the content, can end with the field change
\* of one call overwritten by the other: of the stores that the two calls
\* can leave once both have been made, one has lost the title or the content
C16_DisjointPatchCanBeLost ==
  (\A w \in Writers : tx[w].call = [op |-> "update", id |-> 1, updates |-> TxPatch(w)]
                      /\ tx[w].pc = "getClient")
    => \E d \in AfterBothPatches(db) : \E w \in Writers : Overwritten(d, w)

\* C16 as the code has it: when two concurrent update calls on the same
\* article, one patching only the title and the other only the content,
\* have both returned the article, the article has the new title and the
\* new content
C16_DisjointPatchesBothKept ==
  (\A w \in Writers : Patched(w)) => \A w \in Writers : ~Overwritten(db, w)

\* both patches were made in transactions that were open together; both
\* calls have returned and the article has both new fields
C16_Witness ==
  /\ \A w \in Writers : Patched(w)
  /\ \E w \in Writers : tx[w].overlapped
  /\ db.articles[1].title = <<"b">> /\ db.articles[1].content = <<"d">>

\* C17: unpublish, besides setting the status to draft, clears the
\* published_at of the article: after an unpublish that succeeds the
\* article has no published_at
C17_UnpublishClearsPublishedAt ==
  (last.op = "unpublish" /\ last.result = "ok") =>
    /\ db.articles[last.id].status = "draft"
    /\ db.articles[last.id].published_at = NullTime

\* the condition that makes the service refuse the call op on the article
\* id of the store d
Refusal(op, d, id) ==
  IF ~Exists(d, id) THEN "not found"
  ELSE IF op = "publish" /\ d.articles[id].status = "published" THEN "target state"
  ELSE IF op = "unpublish" /\ d.articles[id].status # "published" THEN "target state"
  ELSE IF op = "archive" /\ d.articles[id].status = "archived" THEN "target state"
  ELSE IF op = "publish" /\ (Blank(d.articles[id].title) \/ Blank(d.articles[id].content))
       THEN "missing field"
  ELSE "none"

\* the response of the controller to the call op, the store failing the
\* call as fault says
Reported(op, d, id, fault) ==
  CASE op = "publish" -> ArticleController_publish(d, id, now, fault)
    [] op = "unpublish" -> ArticleController_unpublish(d, id, now, fault)
    [] op = "archive" -> ArticleController_archive(d, id, now, fault)

\* the responses to a call op that the store fails
InternalFailures(op, d) ==
  {Reported(op, d, id, "commit") :
     id \in {a \in LifeIds : Refusal(op, d, a) = "none"}}
  \cup {catch(op, Letters("store unavailable"))}

\* C18: for publish, unpublish and archive the responses for an article
\* that is not found, for one that is already in the target state and for
\* one that has no title or no content to be published are pairwise
\* different and none is the response to an internal failure; a publish
\* refused for a missing title or content is a validation error
C18_LifecycleErrorsDistinguishable ==
  \A op \in {"publish", "unpublish", "archive"} : \A id \in LifeIds :
    LET why == Refusal(op, db, id)
        r == Reported(op, db, id, "none")
    IN why # "none" =>
         /\ r \notin InternalFailures(op, db)
         /\ why = "missing field" => r.code = "VALIDATION_ERROR"
         /\ \A other \in LifeIds :
              Refusal(op, db, other) \notin {"none", why}
                => Reported(op, db, other, "none") # r

\* the number of categories and tags the articles a and b of the store d
\* have in common
Shared(d, a, b) ==
  Cardinality(getArticleCategoryIds(d, a) \cap getArticleCategoryIds(d, b))
  + Cardinality(getArticleTagIds(d, a) \cap getArticleTagIds(d, b))

\* the article a of the store d has a category or a tag
Classified(d, a) ==
  getArticleCategoryIds(d, a) # {} \/ getArticleTagIds(d, a) # {}

\* C19: findRelated never returns the source article and never an article
\* that is not published; when the source has a category or a tag, every
\* article returned shares a category or a tag with it
C19_RelatedAreOtherPublishedMatches ==
  last.op = "findRelated" =>
    \A i \in DOMAIN last.found :
      LET a == last.found[i]
      IN /\ a # last.id
         /\ Exists(db, a) /\ db.articles[a].status = "published"
         /\ Classified(db, last.id) => Shared(db, last.id, a) > 0

\* findRelated has returned an article for a source that has a tag, and
\* has left out an archived article that has the tag too
C19_Witness ==
  /\ last.op = "findRelated" /\ Len(last.found) = 1
  /\ getArticleTagIds(db, last.id) # {}
  /\ \E a \in DOMAIN db.articles \ {last.id, last.found[1]} :
       db.articles[a].status = "archived" /\ Shared(db, last.id, a) > 0

\* the published articles other than the source of the last findRelated
\* that share a category or a tag with it
Matching ==
  {a \in DOMAIN db.articles :
     a # last.id /\ IsPublished(db, a) /\ Shared(db, last.id, a) > 0}

\* the article a is ahead of the article b in the order of findRelated: a
\* higher score or, at the same score, a later publication
Ahead(a, b) ==
  \/ Shared(db, last.id, a) > Shared(db, last.id, b)
  \/ /\ Shared(db, last.id, a) = Shared(db, last.id, b)
     /\ db.articles[a].published_at > db.articles[b].published_at

Asked(w) ==
  /\ tx[w].call.op = "findOrCreate" /\ tx[w].pc = "done"
  /\ tx[w].result # "store unavailable"

\* C21: for findOrCreateTag calls with the same name, made one after
\* another or at the same time, at most one tag row has the name afterwards
\* and every call returns that row
C21_FindOrCreateReturnsOneRow ==
  /\ \A t, u \in DOMAIN db.tags : db.tags[t].name = db.tags[u].name => t = u
  /\ \A w \in Writers :
       Asked(w) => /\ tx[w].result = "ok"
                   /\ tx[w].row = TagByName(db, Trim(tx[w].call.updates.name))

\* C22: cleanupUnusedTags deletes exactly the tags whose usage_count is 0
\* and returns how many it deleted; every tag that an article still uses
\* and every article_tags row is left as it was
C22_CleanupDeletesUnusedTagsOnly ==
  [][last'.op = "cleanupUnusedTags" =>
       LET unused == {t \in DOMAIN db.tags : db.tags[t].usage_count = 0}
       IN /\ DOMAIN db'.tags = DOMAIN db.tags \ unused
          /\ \A t \in DOMAIN db'.tags : db'.tags[t] = db.tags[t]
          /\ db'.article_tags = db.article_tags
          /\ last'.count = Cardinality(unused)
          /\ \A r \in db.article_tags : r[2] \notin unused]_vars

\* cleanupUnusedTags has deleted one tag and has left a tag that an article
\* uses, with its link
C22_Witness ==
  /\ last.op = "cleanupUnusedTags" /\ last.count = 1
  /\ \E r \in db.article_tags : r[2] \in DOMAIN db.tags
  /\ Cardinality(DOMAIN db.tags) = 1

\* the outcome of a call of CategoryService on the store db: the status of
\* the response and the store the call leaves
CategoryOutcome(op, id, name) ==
  LET out == CASE op = "createCategory" ->
                    CategoryService_create(db, CategoryRows + 1, [name |-> name])
               [] op = "updateCategory" ->
                    CategoryService_update(db, id, [name |-> name])
               [] op = "deleteCategory" -> CategoryService_delete(db, id, "none")
  IN [status |-> CategoryController_status(op, out.result, name), db |-> out.db]

\* C23: createCategory with a name that a category has, and updateCategory
\* renaming a category to the name of another one, fail with a Conflict
\* (409); updateCategory and deleteCategory of an id that no category has
\* fail with NotFound (404); none of these failures changes the store
C23_CategoryFailuresAreTyped ==
  \A name \in CategoryNames : \A id \in 1..CategoryRows :
    LET held == CategoryByName(db, name)
        failsWith(op, status) ==
          CategoryOutcome(op, id, name) = [status |-> status, db |-> db]
    IN /\ held # 0 => failsWith("createCategory", 409)
       /\ (id \in DOMAIN db.categories /\ held \notin {0, id})
            => failsWith("updateCategory", 409)
       /\ id \notin DOMAIN db.categories
            => failsWith("updateCategory", 404) /\ failsWith("deleteCategory", 404)

\* C24: after a deleteCategory that succeeds, the category row and every
\* article_categories row that referenced it are gone, and the articles,
\* their links to other categories and their tag links are as they were; a
\* deleteCategory that fails leaves the row and the links
C24_DeleteCategoryRemovesRowAndLinks ==
  [][last'.op = "deleteCategory" =>
       IF last'.result = "ok"
       THEN /\ db'.categories = Without(db.categories, last'.id)
            /\ db'.article_categories =
                 {r \in db.article_categories : r[2] # last'.id}
            /\ db'.articles = db.articles
            /\ db'.article_tags = db.article_tags
            /\ db'.tags = db.tags
       ELSE db' = db]_vars

\* deleteCategory has removed a category with its link to an article that
\* is still in another category and still has its tag
C24_Witness ==
  /\ last.op = "deleteCategory" /\ last.result = "ok" /\ last.dropped = 1
  /\ \E a \in DOMAIN db.articles :
       getArticleCategoryIds(db, a) # {} /\ getArticleTagIds(db, a) # {}

\* the public reads that return the article a: the list of the published
\* articles, the public get by id, the articles of a category, the articles
\* of a tag
ReturnedBy(d, a) ==
  {r \in {"findPublished", "findPublishedById", "findByCategory", "findByTag"} :
     \/ r = "findPublished" /\ a \in findPublished(d, NoDateRange)
     \/ r = "findPublishedById" /\ findPublishedById(d, a) = a
     \/ r = "findByCategory" /\ \E c \in LifeIds : a \in findByCategory(d, c)
     \/ r = "findByTag" /\ \E t \in LifeIds : a \in findByTag(d, t)}

\* the public reads that can return the article a: those two that read the
\* articles table alone, and the other two when a has a category or a tag
ReadsOf(d, a) ==
  {"findPublished", "findPublishedById"}
  \cup (IF getArticleCategoryIds(d, a) # {} THEN {"findByCategory"} ELSE {})
  \cup (IF getArticleTagIds(d, a) # {} THEN {"findByTag"} ELSE {})

\* C25: the public reads return an article only while it is published: an
\* article that is not published is returned by none of them, in particular
\* after an unpublish, an archive or a saveDraft that succeeded, and a
\* published article is returned by the list and the get by id, and by the
\* reads of its categories and tags, in particular after a publish that
\* succeeded
C25_PublicReadsReturnPublishedOnly ==
  /\ \A a \in LifeIds :
       IF IsPublished(db, a) THEN ReturnedBy(db, a) = ReadsOf(db, a)
                             ELSE ReturnedBy(db, a) = {}
  /\ (last.op \in {"unpublish", "archive", "saveDraft"} /\ last.result = "ok")
       => ReturnedBy(db, last.id) = {}
  /\ (last.op = "publish" /\ last.result = "ok")
       => ReturnedBy(db, last.id) = ReadsOf(db, last.id)

\* an article with a category and a tag, published before, has been
\* published again and all four reads return it
C25_Witness ==
  /\ last.op = "publish" /\ last.result = "ok" /\ last.was \in {"draft", "archived"}
  /\ db.articles[last.id].published_at < now
  /\ ReturnedBy(db, last.id) =
       {"findPublished", "findPublishedById", "findByCategory", "findByTag"}

\* the expression the words of normalizeQuery describe, read off the raw
\* text from left to right: a term is a run of characters other than white
\* space, each of its characters in chars gets a backslash before it, the
\* term ends with ':*', and ' & ' stands between two terms
RECURSIVE normalizeQuery(_, _, _, _)
normalizeQuery(raw, chars, inTerm, afterTerm) ==
  LET close == IF inTerm THEN <<":", "*">> ELSE <<>>
  IN IF raw = <<>> THEN close
     ELSE IF Head(raw) = Sp
     THEN close \o normalizeQuery(Tail(raw), chars, FALSE, afterTerm)
     ELSE (IF ~inTerm /\ afterTerm THEN <<Sp, "&", Sp>> ELSE <<>>)
          \o (IF Head(raw) \in chars THEN <<Bs, Head(raw)>> ELSE <<Head(raw)>>)
          \o normalizeQuery(Tail(raw), chars, TRUE, TRUE)

\* the operator characters the specification names
OperatorCharacters == {"&", "|", "!", "(", ")", ":"}

\* C26, as stated: formatSearchQuery returns the terms of the raw text, a
\* backslash before each of & | ! ( ) : and before no other character, ':*'
\* after every term, ' & ' between the terms; the empty expression for a raw
\* text that is empty or white space
C26_NormalizeEscapesOperatorCharacters ==
  last.op = "formatSearchQuery"
    => last.expression = normalizeQuery(last.query, OperatorCharacters, FALSE, FALSE)

\* C26, amended: the same with the backslash before each of & | ! ( ) : *
C26_NormalizeEscapesSpecialCharacters ==
  last.op = "formatSearchQuery"
    => /\ last.expression = normalizeQuery(last.query, SpecialCharacters, FALSE, FALSE)
       /\ Trim(last.query) = <<>> => last.expression = <<>>

\* 'a& *' has been formatted as 'a\&:* & \*:*'
C26_Witness ==
  /\ last.op = "formatSearchQuery"
  /\ last.query = <<"a", "&", Sp, "*">>
  /\ last.expression = <<"a", Bs, "&", ":", "*", Sp, "&", Sp, Bs, "*", ":", "*">>

\* C30: the expression searchArticles sends to the store for a raw text
\* that is not empty is the one formatSearchQuery gives for that text
C30_SearchSendsNormalizedQuery ==
  (last.op = "searchArticles" /\ last.result = "ok")
    => last.expression = formatSearchQuery(last.query)

\* C27: in every reachable state every published article has a title and
\* a content that are not empty once trimmed
C27_PublishedArticlesHaveTitleAndContent ==
  \A a \in DOMAIN db.articles :
    db.articles[a].status = "published"
      => ~Blank(db.articles[a].title) /\ ~Blank(db.articles[a].content)

\* both writers have published the same article and neither call was ended
\* by a failure of the store
BothPublished ==
  \A w \in Writers : /\ tx[w].call.op = "publish" /\ tx[w].pc = "done"
                     /\ tx[w].result # "store unavailable"

\* C28, as stated: of two publish calls on the same article that is not
\* published, running at the same time, exactly one succeeds and the other
\* fails with 'Article is already published'
C28_OneOfTwoPublishesSucceeds ==
  BothPublished
    => \E w \in Writers :
         /\ tx[w].result = "ok"
         /\ \A v \in Writers \ {w} : tx[v].result = AlreadyPublished

\* C28, amended: a publish that reads the article when it is published
\* fails with 'Article is already published' and writes nothing; of two
\* publish calls on the same article that is not published, each succeeds
\* or fails with that error, at least one succeeds, and the article is
\* published afterwards: both succeed when both read the status before
\* either has committed
C28_PublishChecksCommittedStatusOnly ==
  /\ [][\A w \in Writers :
          (tx[w].pc = "idle" /\ tx'[w].call.op = "publish" /\ IsPublished(db, tx'[w].call.id))
            => tx'[w].pc = "done" /\ tx'[w].result = AlreadyPublished /\ db' = db]_vars
  /\ [](BothPublished
          => /\ \A w \in Writers : tx[w].result \in {"ok", AlreadyPublished}
             /\ \E w \in Writers : tx[w].result = "ok"
             /\ IsPublished(db, 1))

\* both publish calls have succeeded on the article that was a draft
C28_Witness ==
  /\ BothPublished
  /\ \A w \in Writers : tx[w].result = "ok"
  /\ IsPublished(db, 1)

\* both writers have created the category of the same name and neither
\* call was ended by a failure of the store
BothCreated ==
  \A w \in Writers : /\ tx[w].call.op = "createCategory" /\ tx[w].pc = "done"
                     /\ tx[w].result # "store unavailable"

\* C29: after two createCategory calls with the same new name, running at
\* the same time, one category has that name, one call is answered 201 and
\* the other 409 as a duplicate create made after the first has finished
C29_ConcurrentDuplicateCategoryIsConflict ==
  BothCreated
    => LET status(w) == CategoryController_status("createCategory", tx[w].result,
                                                  tx[w].call.updates.name)
       IN /\ Cardinality({c \in DOMAIN db.categories :
                            db.categories[c].name = tx[1].call.updates.name}) = 1
          /\ \E w \in Writers :
               status(w) = 201 /\ \A v \in Writers \ {w} : status(v) = 409

====
